---- MODULE Spec2Model ----
(***************************************************************************)
(* A model of the pdfmapper field editor and live preview.                 *)
(*                                                                         *)
(* The store (src/store/template.ts), the coordinate utilities             *)
(* (src/lib/coordinates.ts), the pointer handlers of FieldOverlay and      *)
(* FieldRectangle, the FieldSidebar handlers and the GenerationModal       *)
(* preview pipeline are modelled as one state machine.  JavaScript numbers *)
(* are modelled as exact rationals (floating rounding is abstracted), so   *)
(* that a division by the page size followed by a multiplication is        *)
(* computed, not assumed.                                                  *)
(***************************************************************************)
EXTENDS Integers, Sequences, FiniteSets, TLC

(***************************************************************************)
(* Bounds of the model.                                                    *)
(***************************************************************************)
\* the largest number of fields the registry holds in the model
MaxFields == 2
\* the number of pointer-down events in one behaviour
MaxGestures == 2
\* the number of edits of the data record in one behaviour
MaxEdits == 2
\* the number of times the generation modal is opened in one behaviour
MaxOpens == 1
MaxDrags == 3
MaxKeyOps == 4
MaxStoreOps == 4

(***************************************************************************)
(* Program constants.                                                      *)
(***************************************************************************)
\* FieldRectangle: const MIN_SIZE = 20; // Minimum size in pixels
MIN_SIZE == 20
\* selectedFieldId / editingFieldId: null
NoId == 0
\* pdfUrl: null
NoUrl == 0
\* the pages of the uploaded document
Pages == {1, 2}

(***************************************************************************)
(* Exact rational arithmetic for JavaScript numbers.                       *)
(***************************************************************************)
Abs(i) == IF i < 0 THEN -i ELSE i

RECURSIVE GCD(_, _)
GCD(a, b) == IF b = 0 THEN a ELSE GCD(b, a % b)

\* the rational n/d (d > 0) in lowest terms
Rat(n, d) ==
    LET g == GCD(Abs(n), d)
    IN  [n |-> n \div g, d |-> d \div g]

RInt(i) == [n |-> i, d |-> 1]
RAdd(a, b) == Rat(a.n * b.d + b.n * a.d, a.d * b.d)
RSub(a, b) == Rat(a.n * b.d - b.n * a.d, a.d * b.d)
RMul(a, b) == Rat(a.n * b.n, a.d * b.d)
\* a / i for a positive integer i
RDivInt(a, i) == Rat(a.n, a.d * i)
RLe(a, b) == a.n * b.d <= b.n * a.d
RLt(a, b) == a.n * b.d < b.n * a.d
\* Math.max, Math.min
RMax(a, b) == IF RLe(a, b) THEN b ELSE a
RMin(a, b) == IF RLe(a, b) THEN a ELSE b
RZero == RInt(0)
ROne == RInt(1)

(***************************************************************************)
(* src/lib/utils: clamp.                                                   *)
(***************************************************************************)
clamp(value, min, max) == RMin(RMax(value, min), max)

(***************************************************************************)
(* src/lib/coordinates.ts                                                  *)
(***************************************************************************)
\* export const MIN_FIELD_SIZE_PERCENT = 0.01
MIN_FIELD_SIZE_PERCENT == Rat(1, 100)

pixelsToPercentage(pixelRect, dims) ==
    [x |-> RDivInt(pixelRect.x, dims.width),
     y |-> RDivInt(pixelRect.y, dims.height),
     w |-> RDivInt(pixelRect.w, dims.width),
     h |-> RDivInt(pixelRect.h, dims.height)]

\* a conversion that scales the height by the page width
percentageToPixelsByWidth(percentRect, dims) ==
    [x |-> RMul(percentRect.x, RInt(dims.width)),
     y |-> RMul(percentRect.y, RInt(dims.height)),
     w |-> RMul(percentRect.w, RInt(dims.width)),
     h |-> RMul(percentRect.h, RInt(dims.width))]

percentageToPixels(percentRect, dims) ==
    [x |-> RMul(percentRect.x, RInt(dims.width)),
     y |-> RMul(percentRect.y, RInt(dims.height)),
     w |-> RMul(percentRect.w, RInt(dims.width)),
     h |-> RMul(percentRect.h, RInt(dims.height))]

\* a conversion whose lower edge is taken from the width
percentageToPDFCoordsByWidth(percentRect, pdfPageDimensions) ==
    [x0 |-> RMul(percentRect.x, RInt(pdfPageDimensions.width)),
     y0 |-> RMul(percentRect.y, RInt(pdfPageDimensions.height)),
     x1 |-> RMul(RAdd(percentRect.x, percentRect.w),
                 RInt(pdfPageDimensions.width)),
     y1 |-> RMul(RAdd(percentRect.y, percentRect.w),
                 RInt(pdfPageDimensions.height))]

percentageToPDFCoords(percentRect, pdfPageDimensions) ==
    [x0 |-> RMul(percentRect.x, RInt(pdfPageDimensions.width)),
     y0 |-> RMul(percentRect.y, RInt(pdfPageDimensions.height)),
     x1 |-> RMul(RAdd(percentRect.x, percentRect.w),
                 RInt(pdfPageDimensions.width)),
     y1 |-> RMul(RAdd(percentRect.y, percentRect.h),
                 RInt(pdfPageDimensions.height))]

\* a normalization that keeps the sign of the drag
normalizeRectSigned(startX, startY, endX, endY) ==
    [x |-> RInt(IF startX <= endX THEN startX ELSE endX),
     y |-> RInt(IF startY <= endY THEN startY ELSE endY),
     w |-> RInt(endX - startX),
     h |-> RInt(endY - startY)]

\* Math.min(start, end) and Math.abs(end - start) per axis
normalizeRect(startX, startY, endX, endY) ==
    [x |-> RInt(IF startX <= endX THEN startX ELSE endX),
     y |-> RInt(IF startY <= endY THEN startY ELSE endY),
     w |-> RInt(Abs(endX - startX)),
     h |-> RInt(Abs(endY - startY))]

\* a size test that accepts the rect of exactly the minimum size no more
isValidFieldSizeStrict(rect) ==
    RLt(MIN_FIELD_SIZE_PERCENT, rect.w) /\ RLt(MIN_FIELD_SIZE_PERCENT, rect.h)

isValidFieldSize(rect) ==
    RLe(MIN_FIELD_SIZE_PERCENT, rect.w) /\ RLe(MIN_FIELD_SIZE_PERCENT, rect.h)

(***************************************************************************)
(* The document and the pointer of the model.                              *)
(***************************************************************************)
\* the rendered size of each page, as react-pdf reports it on load: page 1
\* is a narrow, tall page, page 2 a small page
PageSize(p) ==
    IF p = 1 THEN [width |-> 400, height |-> 3000]
             ELSE [width |-> 200, height |-> 300]

\* pointer positions inside an overlay (inside both pages), relative to it
InsidePts == {<<5, 10>>, <<15, 10>>, <<5, 40>>, <<15, 40>>, <<150, 250>>}
\* a pointer position outside the overlay a drag started on (above it and to
\* its left)
OutsidePts == {<<-30, -30>>}

\* the file name a document is uploaded under, without its extension
UploadName == <<"doc">>

\* the decimal digits of a small number, as `field_${n}` prints it
NumStr(n) == <<"0", "1", "2", "3", "4", "5", "6", "7", "8", "9">>[n + 1]

(***************************************************************************)
(* State.                                                                  *)
(***************************************************************************)
VARIABLES
    \* the store: src/store/template.ts
    fields,            \* Field[]
    selectedFieldId,   \* string | null
    drawingState,      \* DrawingState
    pageDimensions,    \* Map<number, PageDimensions>
    templateName,      \* string
    pdfUrl,            \* string | null
    pageCount,         \* number
    \* the local state of every mounted FieldRectangle, by field id
    rectState,
    \* FieldSidebar: editingFieldId and editingKey
    editingFieldId,
    sidebarKey,
    \* the browser: the focused rename input, the overlay the pointer is
    \* over (0: none), and whether the pointer button is held
    focus,
    over,
    buttonDown,
    \* counters that bound the model
    gestures,
    nextId,
    \* GenerationModal (the auto-preview version): isOpen, jsonInput,
    \* isGenerating, previewUrl
    isOpen,
    jsonInput,
    isGenerating,
    previewUrl,
    \* the pending debounce timer, with the render's values its callback
    \* closes over; the handlePreview calls awaiting the renderer
    timer,
    inflight,
    \* the browser's object URLs: the data version each generated document
    \* was made from, and the URLs that were revoked
    blobs,
    revoked,
    \* history: a render failed; counters that bound the model
    renderFailed,
    started,
    edits,
    opens,
    \* the last notification shown to the user (sonner toast)
    toast,
    \* the template file that was downloaded last
    saved,
    \* a call of a pure function of the library and what it returned
    call,
    result

storeVars == <<fields, selectedFieldId, drawingState, pageDimensions,
               templateName, pdfUrl, pageCount>>
editorVars == <<rectState, editingFieldId, sidebarKey, focus, over,
                buttonDown, gestures, nextId>>
modalVars == <<isOpen, jsonInput, isGenerating, previewUrl, timer, inflight,
               blobs, revoked, renderFailed, started, edits, opens>>
pureVars == <<call, result>>
vars == <<storeVars, editorVars, modalVars, toast, saved, pureVars>>

\* const initialDrawingState
initialDrawingState ==
    [isDrawing |-> FALSE, startX |-> 0, startY |-> 0,
     currentX |-> 0, currentY |-> 0, pageNumber |-> 1]

NoFocus == [kind |-> "none", id |-> NoId]

\* jsonInput: the text's version (0: the initial '') and whether it is
\* empty, parsable JSON or unparsable
EmptyJson == [version |-> 0, kind |-> "empty"]
\* no debounce timer is pending
NoTimer == [pending |-> FALSE]
\* no notification was shown
NoToast == [kind |-> "none"]
\* no template file was downloaded
NoFile == [t |-> "none"]
\* no library function is called
NoCall == [fn |-> "none"]
NoResult == [fn |-> "none"]

(***************************************************************************)
(* Strings: a key or a name is a sequence of characters; " " is the only   *)
(* white space the model types.                                            *)
(***************************************************************************)
RECURSIVE TrimLeft(_)
TrimLeft(s) ==
    IF s = <<>> THEN <<>>
    ELSE IF Head(s) = " " THEN TrimLeft(Tail(s)) ELSE s

RECURSIVE TrimRight(_)
TrimRight(s) ==
    IF s = <<>> THEN <<>>
    ELSE IF s[Len(s)] = " " THEN TrimRight(SubSeq(s, 1, Len(s) - 1)) ELSE s

\* String.prototype.trim
trim(s) == TrimRight(TrimLeft(s))

(***************************************************************************)
(* The store's operations (src/store/template.ts), as functions of the     *)
(* state they read.                                                        *)
(***************************************************************************)
Range(s) == {s[i] : i \in DOMAIN s}
FieldIds(fs) == {fs[i].id : i \in DOMAIN fs}
\* fields.find(f => f.id === id), for an id that is present
FieldOf(fs, id) == fs[CHOOSE i \in DOMAIN fs : fs[i].id = id]

addField(fs, field) == Append(fs, field)

\* { ...f, ...updates } on the field with this id
updateField(fs, id, updates) ==
    [i \in DOMAIN fs |->
        IF fs[i].id = id
        THEN [k \in DOMAIN fs[i] |->
                 IF k \in DOMAIN updates THEN updates[k] ELSE fs[i][k]]
        ELSE fs[i]]

\* fields.filter(f => f.id !== id)
RECURSIVE FilterOut(_, _)
FilterOut(fs, id) ==
    IF fs = <<>> THEN <<>>
    ELSE IF Head(fs).id = id THEN FilterOut(Tail(fs), id)
         ELSE <<Head(fs)>> \o FilterOut(Tail(fs), id)

\* a removal that keeps the selection
removeFieldKeepsSelection(fs, sel, id) ==
    [fields |-> FilterOut(fs, id), selectedFieldId |-> sel]

removeField(fs, sel, id) ==
    [fields |-> FilterOut(fs, id),
     selectedFieldId |-> IF sel = id THEN NoId ELSE sel]

setFields(newFields) == newFields

setSelectedFieldId(id) == id

\* drawingState: { ...prev.drawingState, ...state }
setDrawingState(prev, state) ==
    [k \in DOMAIN prev |-> IF k \in DOMAIN state THEN state[k] ELSE prev[k]]

resetDrawingState == initialDrawingState

\* newMap.set(pageNumber, dimensions)
setPageDimensions(dimsMap, pageNumber, dimensions) ==
    [p \in DOMAIN dimsMap \cup {pageNumber} |->
        IF p = pageNumber THEN dimensions ELSE dimsMap[p]]

(***************************************************************************)
(* FieldOverlay renders a FieldRectangle for every field of a page whose   *)
(* dimensions are known; a FieldRectangle keeps its local state while it   *)
(* stays mounted (React key = field.id).                                   *)
(***************************************************************************)
PixelRectOf(f, dimsMap) == percentageToPixels(f.rect, dimsMap[f.page_number])

MountedIds(fs, dimsMap) ==
    {fs[i].id : i \in {j \in DOMAIN fs : fs[j].page_number \in DOMAIN dimsMap}}

\* the useState initial values of a FieldRectangle
InitialRectState(f, dimsMap) ==
    [dragMode |-> "none",
     dragStart |-> <<0, 0>>,
     initialRect |-> PixelRectOf(f, dimsMap),
     isEditing |-> FALSE,
     editingKey |-> f.key]

Remount(rs, fs, dimsMap) ==
    [id \in MountedIds(fs, dimsMap) |->
        IF id \in DOMAIN rs THEN rs[id]
        ELSE InitialRectState(FieldOf(fs, id), dimsMap)]

DraggingIds(rs) == {id \in DOMAIN rs : rs[id].dragMode # "none"}

(***************************************************************************)
(* Hit testing: the element under the pointer.                             *)
(***************************************************************************)
\* the pointer is over the field's box (its border included)
Hits(f, dimsMap, pt) ==
    LET r == PixelRectOf(f, dimsMap)
    IN  /\ RLe(r.x, RInt(pt[1])) /\ RLe(RInt(pt[1]), RAdd(r.x, r.w))
        /\ RLe(r.y, RInt(pt[2])) /\ RLe(RInt(pt[2]), RAdd(r.y, r.h))

\* the indexes of the fields of page p under the pointer
HitIndexes(fs, dimsMap, p, pt) ==
    {i \in DOMAIN fs : fs[i].page_number = p /\ Hits(fs[i], dimsMap, pt)}

\* the topmost one: the last rendered
HitField(fs, dimsMap, p, pt) ==
    LET hit == HitIndexes(fs, dimsMap, p, pt)
    IN  fs[CHOOSE i \in hit : \A j \in hit : j <= i]

\* the resize handle of the field under the pointer, "move" on its body
HandleAt(f, dimsMap, pt) ==
    LET r == PixelRectOf(f, dimsMap)
        left == r.x = RInt(pt[1])
        right == RAdd(r.x, r.w) = RInt(pt[1])
        top == r.y = RInt(pt[2])
        bottom == RAdd(r.y, r.h) = RInt(pt[2])
    IN  IF right /\ bottom THEN "resize-se"
        ELSE IF left /\ top THEN "resize-nw"
        ELSE IF right /\ top THEN "resize-ne"
        ELSE IF left /\ bottom THEN "resize-sw"
        ELSE "move"

(***************************************************************************)
(* FieldRectangle: the rect a pointer move gives a dragged field.          *)
(***************************************************************************)
MinSizePx == RInt(MIN_SIZE)

\* a handler whose resize-nw moves the corner and keeps the size
DragPixelRectSliding(dragMode, initialRect, deltaX, deltaY, dims) ==
    LET dx == RInt(deltaX)
        dy == RInt(deltaY)
        newX == clamp(RAdd(initialRect.x, dx), RZero,
                      RSub(RAdd(initialRect.x, initialRect.w), RInt(MIN_SIZE)))
        newY == clamp(RAdd(initialRect.y, dy), RZero,
                      RSub(RAdd(initialRect.y, initialRect.h), RInt(MIN_SIZE)))
    IN  IF dragMode = "resize-nw"
        THEN [initialRect EXCEPT !.x = newX, !.y = newY]
        ELSE initialRect

\* handleMouseMove's newRect, in pixels
DragPixelRect(dragMode, initialRect, deltaX, deltaY, dims) ==
    LET dx == RInt(deltaX)
        dy == RInt(deltaY)
        W == RInt(dims.width)
        H == RInt(dims.height)
        moveX == clamp(RAdd(initialRect.x, dx), RZero, RSub(W, initialRect.w))
        moveY == clamp(RAdd(initialRect.y, dy), RZero, RSub(H, initialRect.h))
        growW == clamp(RAdd(initialRect.w, dx), MinSizePx, RSub(W, initialRect.x))
        growH == clamp(RAdd(initialRect.h, dy), MinSizePx, RSub(H, initialRect.y))
        newX == clamp(RAdd(initialRect.x, dx), RZero,
                      RSub(RAdd(initialRect.x, initialRect.w), MinSizePx))
        newY == clamp(RAdd(initialRect.y, dy), RZero,
                      RSub(RAdd(initialRect.y, initialRect.h), MinSizePx))
        pullW == RAdd(initialRect.w, RSub(initialRect.x, newX))
        pullH == RAdd(initialRect.h, RSub(initialRect.y, newY))
    IN  CASE dragMode = "move" ->
                [initialRect EXCEPT !.x = moveX, !.y = moveY]
          [] dragMode = "resize-se" ->
                [initialRect EXCEPT !.w = growW, !.h = growH]
          [] dragMode = "resize-sw" ->
                [initialRect EXCEPT !.x = newX, !.w = pullW, !.h = growH]
          [] dragMode = "resize-ne" ->
                [initialRect EXCEPT !.w = growW, !.y = newY, !.h = pullH]
          [] dragMode = "resize-nw" ->
                [initialRect EXCEPT !.x = newX, !.y = newY,
                                    !.w = pullW, !.h = pullH]
          [] OTHER -> initialRect

\* handleMouseMove of the FieldRectangle with local state st: the percent
\* rect written to the field
DragRect(st, pt, dims) ==
    pixelsToPercentage(
        DragPixelRect(st.dragMode, st.initialRect,
                      pt[1] - st.dragStart[1], pt[2] - st.dragStart[2], dims),
        dims)

(***************************************************************************)
(* Rename inputs and focus.  A rename input calls its onBlur handler when  *)
(* it loses focus.                                                         *)
(***************************************************************************)
\* FieldRectangle.handleSaveEdit of field id
InlineSaveEdit(fs, rs, id) ==
    LET text == trim(rs[id].editingKey)
    IN  [fields |-> IF text # <<>> THEN updateField(fs, id, [key |-> text])
                    ELSE fs,
         rectState |-> [rs EXCEPT ![id].isEditing = FALSE]]

\* FieldRectangle.handleCancelEdit of field id
InlineCancelEdit(fs, rs, id) ==
    [rs EXCEPT ![id].editingKey = FieldOf(fs, id).key, ![id].isEditing = FALSE]

\* FieldSidebar.handleSaveEdit: the fields it leaves
SidebarSavedFields(fs, eid, skey) ==
    IF eid # NoId /\ trim(skey) # <<>>
    THEN updateField(fs, eid, [key |-> trim(skey)])
    ELSE fs

\* the onBlur handler of the focused input, if any: what it leaves of the
\* fields, the FieldRectangle states and the sidebar's editing state
Blurred(foc, fs, rs, eid, skey) ==
    CASE foc.kind = "inline" ->
            [fields |-> InlineSaveEdit(fs, rs, foc.id).fields,
             rectState |-> InlineSaveEdit(fs, rs, foc.id).rectState,
             editingFieldId |-> eid,
             sidebarKey |-> skey]
      [] foc.kind = "sidebar" ->
            [fields |-> SidebarSavedFields(fs, eid, skey),
             rectState |-> rs,
             editingFieldId |-> NoId,
             sidebarKey |-> <<>>]
      [] OTHER ->
            [fields |-> fs, rectState |-> rs,
             editingFieldId |-> eid, sidebarKey |-> skey]

\* the focus once the input that held it is gone from the page
FocusKept(foc, fs, rs, eid) ==
    CASE foc.kind = "inline" ->
            IF foc.id \in DOMAIN rs /\ rs[foc.id].isEditing THEN foc ELSE NoFocus
      [] foc.kind = "sidebar" ->
            IF eid # NoId /\ eid \in FieldIds(fs) THEN foc ELSE NoFocus
      [] OTHER -> NoFocus

(***************************************************************************)
(* Init: the store as created, nothing mounted, the pointer outside.       *)
(***************************************************************************)
\* the store as created and every component as mounted
InitProgram ==
    /\ fields = <<>>
    /\ selectedFieldId = NoId
    /\ drawingState = initialDrawingState
    /\ pageDimensions = <<>>
    /\ templateName = <<>>
    /\ pdfUrl = NoUrl
    /\ pageCount = 0
    /\ rectState = <<>>
    /\ editingFieldId = NoId
    /\ sidebarKey = <<>>
    /\ focus = NoFocus
    /\ over = 0
    /\ buttonDown = FALSE
    /\ gestures = 0
    /\ nextId = 1
    /\ isOpen = FALSE
    /\ jsonInput = EmptyJson
    /\ isGenerating = FALSE
    /\ previewUrl = NoUrl
    /\ timer = NoTimer
    /\ inflight = {}
    /\ blobs = <<>>
    /\ revoked = {}
    /\ renderFailed = FALSE
    /\ started = 0
    /\ edits = 0
    /\ opens = 0
    /\ toast = NoToast
    /\ saved = NoFile

Init ==
    /\ InitProgram
    /\ call = NoCall
    /\ result = NoResult

(***************************************************************************)
(* Upload and page rendering.                                              *)
(***************************************************************************)
\* PDFUploader.processFile, on a valid document: setPdfFile, setPageCount,
\* setTemplateName
Upload ==
    /\ pdfUrl = NoUrl
    /\ pdfUrl' = 1
    /\ pageCount' = Cardinality(Pages)
    /\ templateName' = UploadName
    /\ UNCHANGED <<fields, selectedFieldId, drawingState, pageDimensions>>
    /\ UNCHANGED editorVars
    /\ UNCHANGED modalVars
    /\ UNCHANGED <<toast, saved>>
    /\ UNCHANGED pureVars

\* PDFCanvas.handlePageLoadSuccess: the page's overlay mounts with it
PageLoadSuccess(p) ==
    /\ pdfUrl # NoUrl
    /\ p \in 1..pageCount
    /\ p \notin DOMAIN pageDimensions
    /\ pageDimensions' = setPageDimensions(pageDimensions, p, PageSize(p))
    /\ rectState' = Remount(rectState, fields, pageDimensions')
    /\ UNCHANGED <<fields, selectedFieldId, drawingState, templateName,
                   pdfUrl, pageCount>>
    /\ UNCHANGED <<editingFieldId, sidebarKey, focus, over, buttonDown,
                   gestures, nextId>>
    /\ UNCHANGED modalVars
    /\ UNCHANGED <<toast, saved>>
    /\ UNCHANGED pureVars

(***************************************************************************)
(* The pointer enters and leaves an overlay.                               *)
(***************************************************************************)
PointerEnter(p) ==
    /\ over = 0
    /\ p \in DOMAIN pageDimensions
    /\ over' = p
    /\ UNCHANGED storeVars
    /\ UNCHANGED <<rectState, editingFieldId, sidebarKey, focus, buttonDown,
                   gestures, nextId>>
    /\ UNCHANGED modalVars
    /\ UNCHANGED <<toast, saved>>
    /\ UNCHANGED pureVars

\* a leave handler that does nothing
handleMouseLeaveIgnored(ds) == ds

\* FieldOverlay.handleMouseLeave
handleMouseLeave(ds) == IF ds.isDrawing THEN resetDrawingState ELSE ds

PointerLeave ==
    /\ over # 0
    /\ over' = 0
    /\ drawingState' = handleMouseLeave(drawingState)
    /\ UNCHANGED <<fields, selectedFieldId, pageDimensions, templateName,
                   pdfUrl, pageCount>>
    /\ UNCHANGED <<rectState, editingFieldId, sidebarKey, focus, buttonDown,
                   gestures, nextId>>
    /\ UNCHANGED modalVars
    /\ UNCHANGED <<toast, saved>>
    /\ UNCHANGED pureVars

(***************************************************************************)
(* Pointer-down.                                                           *)
(***************************************************************************)
\* FieldOverlay.handleMouseDown of page p, on empty canvas.  The handler
\* does not prevent the default action, so a focused rename input loses
\* focus.
OverlayMouseDown(p, pt) ==
    /\ over = p
    /\ ~buttonDown
    /\ gestures < MaxGestures
    /\ Len(fields) < MaxFields
    /\ pt \in InsidePts
    /\ HitIndexes(fields, pageDimensions, p, pt) = {}
    /\ LET b == Blurred(focus, fields, rectState, editingFieldId, sidebarKey)
       IN  /\ fields' = b.fields
           /\ rectState' = b.rectState
           /\ editingFieldId' = b.editingFieldId
           /\ sidebarKey' = b.sidebarKey
    /\ focus' = NoFocus
    /\ drawingState' = setDrawingState(drawingState,
                           [isDrawing |-> TRUE,
                            startX |-> pt[1], startY |-> pt[2],
                            currentX |-> pt[1], currentY |-> pt[2],
                            pageNumber |-> p])
    /\ selectedFieldId' = setSelectedFieldId(NoId)
    /\ buttonDown' = TRUE
    /\ gestures' = gestures + 1
    /\ UNCHANGED <<pageDimensions, templateName, pdfUrl, pageCount, over, nextId>>
    /\ UNCHANGED modalVars
    /\ UNCHANGED <<toast, saved>>
    /\ UNCHANGED pureVars

\* FieldRectangle.handleMouseDown(e, mode) of the field under the pointer:
\* mode is the handle under the pointer (handles show on the selected field)
\* or 'move'.  While the field is being renamed the handler returns before
\* preventDefault, and the rename input loses focus.
FieldMouseDown(id, pt) ==
    /\ ~buttonDown
    /\ gestures < MaxGestures
    /\ pt \in InsidePts
    /\ id \in DOMAIN rectState
    /\ over = FieldOf(fields, id).page_number
    /\ HitIndexes(fields, pageDimensions, over, pt) # {}
    /\ HitField(fields, pageDimensions, over, pt).id = id
    /\ IF rectState[id].isEditing
       THEN LET b == Blurred(focus, fields, rectState, editingFieldId, sidebarKey)
            IN  /\ fields' = b.fields
                /\ rectState' = b.rectState
                /\ editingFieldId' = b.editingFieldId
                /\ sidebarKey' = b.sidebarKey
                /\ focus' = NoFocus
                /\ UNCHANGED selectedFieldId
       ELSE LET f == FieldOf(fields, id)
                mode == IF selectedFieldId = id
                        THEN HandleAt(f, pageDimensions, pt) ELSE "move"
            IN  /\ rectState' = [rectState EXCEPT
                                   ![id].dragMode = mode,
                                   ![id].dragStart = pt,
                                   ![id].initialRect = PixelRectOf(f, pageDimensions)]
                /\ selectedFieldId' = setSelectedFieldId(id)
                /\ UNCHANGED <<fields, editingFieldId, sidebarKey, focus>>
    /\ buttonDown' = TRUE
    /\ gestures' = gestures + 1
    /\ UNCHANGED <<drawingState, pageDimensions, templateName, pdfUrl,
                   pageCount, over, nextId>>
    /\ UNCHANGED modalVars
    /\ UNCHANGED <<toast, saved>>
    /\ UNCHANGED pureVars

\* FieldRectangle.handleClick
FieldClick(id, pt) ==
    /\ ~buttonDown
    /\ pt \in InsidePts
    /\ id \in DOMAIN rectState
    /\ over = FieldOf(fields, id).page_number
    /\ HitIndexes(fields, pageDimensions, over, pt) # {}
    /\ HitField(fields, pageDimensions, over, pt).id = id
    /\ selectedFieldId' = setSelectedFieldId(id)
    /\ UNCHANGED <<fields, drawingState, pageDimensions, templateName,
                   pdfUrl, pageCount>>
    /\ UNCHANGED editorVars
    /\ UNCHANGED modalVars
    /\ UNCHANGED <<toast, saved>>
    /\ UNCHANGED pureVars

(***************************************************************************)
(* Pointer-move: FieldOverlay.handleMouseMove of the overlay under the     *)
(* pointer and the document-level handleMouseMove of every FieldRectangle  *)
(* that is being dragged.                                                  *)
(***************************************************************************)
\* a move handler that drags the start of the gesture along
OverlayMouseMoveFromStart(ds, p, pt) ==
    IF ~ds.isDrawing \/ ds.pageNumber # p
    THEN ds
    ELSE setDrawingState(ds, [startX |-> pt[1], currentX |-> pt[1],
                              currentY |-> pt[2]])

\* FieldOverlay.handleMouseMove of page p
OverlayMouseMove(ds, p, pt) ==
    IF ~ds.isDrawing \/ ds.pageNumber # p
    THEN ds
    ELSE setDrawingState(ds, [currentX |-> pt[1], currentY |-> pt[2]])

\* the fields after every dragged FieldRectangle handled the move
DraggedFields(fs, rs, dimsMap, pt) ==
    [i \in DOMAIN fs |->
        IF fs[i].id \in DraggingIds(rs)
        THEN [fs[i] EXCEPT !.rect =
                 DragRect(rs[fs[i].id], pt, dimsMap[fs[i].page_number])]
        ELSE fs[i]]

\* the positions the pointer can be at: inside the overlay it is over, and
\* outside the page of a field dragged from another place
PointerPositions ==
    IF over # 0 /\ \A id \in DraggingIds(rectState) :
                       FieldOf(fields, id).page_number = over
    THEN InsidePts
    ELSE OutsidePts

PointerMove(pt) ==
    /\ pt \in PointerPositions
    /\ drawingState' = IF over # 0 THEN OverlayMouseMove(drawingState, over, pt)
                       ELSE drawingState
    /\ fields' = DraggedFields(fields, rectState, pageDimensions, pt)
    /\ UNCHANGED <<selectedFieldId, pageDimensions, templateName, pdfUrl, pageCount>>
    /\ UNCHANGED editorVars
    /\ UNCHANGED modalVars
    /\ UNCHANGED <<toast, saved>>
    /\ UNCHANGED pureVars

(***************************************************************************)
(* Pointer-up: FieldOverlay.handleMouseUp of the overlay under the pointer *)
(* and the document-level handleMouseUp of every dragged FieldRectangle.   *)
(***************************************************************************)
\* the percent rect of the drawing gesture on a page of these dimensions
DrawnRect(ds, dims) ==
    pixelsToPercentage(
        normalizeRect(ds.startX, ds.startY, ds.currentX, ds.currentY), dims)

\* the gesture ends on its own page, whose dimensions are known
DrawingEndsOn(ds, dimsMap, p) ==
    ds.isDrawing /\ ds.pageNumber = p /\ p \in DOMAIN dimsMap

\* FieldOverlay.handleMouseUp of page p creates a field
CreatesField(ds, dimsMap, p) ==
    /\ DrawingEndsOn(ds, dimsMap, p)
    /\ isValidFieldSize(DrawnRect(ds, dimsMap[p]))

\* a field that is always put on the first page
NewFieldOnFirstPage(fs, ds, dimsMap, p, id) ==
    [id |-> id,
     key |-> <<"field_", NumStr(Len(fs) + 1)>>,
     type |-> "text",
     page_number |-> 1,
     fontSize |-> "undefined",
     rect |-> DrawnRect(ds, dimsMap[p])]

\* the field it creates
NewField(fs, ds, dimsMap, p, id) ==
    [id |-> id,
     key |-> <<"field_", NumStr(Len(fs) + 1)>>,
     type |-> "text",
     page_number |-> p,
     fontSize |-> "undefined",
     rect |-> DrawnRect(ds, dimsMap[p])]

\* document-level handleMouseUp: setDragMode('none')
DragsEnded(rs) == [id \in DOMAIN rs |-> [rs[id] EXCEPT !.dragMode = "none"]]

PointerUp ==
    /\ buttonDown
    /\ buttonDown' = FALSE
    /\ IF over # 0 /\ CreatesField(drawingState, pageDimensions, over)
       THEN /\ fields' = addField(fields,
                   NewField(fields, drawingState, pageDimensions, over, nextId))
            /\ selectedFieldId' = setSelectedFieldId(nextId)
            /\ nextId' = nextId + 1
       ELSE UNCHANGED <<fields, selectedFieldId, nextId>>
    /\ drawingState' = IF over # 0 THEN resetDrawingState ELSE drawingState
    /\ rectState' = Remount(DragsEnded(rectState), fields', pageDimensions)
    /\ UNCHANGED <<pageDimensions, templateName, pdfUrl, pageCount>>
    /\ UNCHANGED <<editingFieldId, sidebarKey, focus, over, gestures>>
    /\ UNCHANGED modalVars
    /\ UNCHANGED <<toast, saved>>
    /\ UNCHANGED pureVars

(***************************************************************************)
(* The pointer-driven editor: upload, page load, draw, drag, click.        *)
(***************************************************************************)
NextPointer ==
    \/ Upload
    \/ \E p \in Pages : PageLoadSuccess(p)
    \/ \E p \in Pages : PointerEnter(p)
    \/ PointerLeave
    \/ \E p \in Pages, pt \in InsidePts : OverlayMouseDown(p, pt)
    \/ \E id \in DOMAIN rectState, pt \in InsidePts : FieldMouseDown(id, pt)
    \/ \E id \in DOMAIN rectState, pt \in InsidePts : FieldClick(id, pt)
    \/ \E pt \in InsidePts \cup OutsidePts : PointerMove(pt)
    \/ PointerUp

SpecPointer == Init /\ [][NextPointer]_vars

(***************************************************************************)
(* Renaming a field on the canvas (FieldRectangle).                        *)
(***************************************************************************)
\* the texts typed into a rename input: white space only, and a padded key
TypedKeys == {<<" ">>, <<" ", "k", " ">>}

\* FieldRectangle.handleDoubleClick; the effect on isEditing then focuses the
\* inline input, and the input that had the focus loses it.  The clicks of
\* the double click have selected the field.
FieldDoubleClick(id, pt) ==
    /\ ~buttonDown
    /\ pt \in InsidePts
    /\ id \in DOMAIN rectState
    /\ over = FieldOf(fields, id).page_number
    /\ HitIndexes(fields, pageDimensions, over, pt) # {}
    /\ HitField(fields, pageDimensions, over, pt).id = id
    /\ selectedFieldId = id
    /\ ~rectState[id].isEditing
    /\ LET rs == [rectState EXCEPT ![id].isEditing = TRUE,
                                   ![id].editingKey = FieldOf(fields, id).key]
           b == Blurred(focus, fields, rs, editingFieldId, sidebarKey)
       IN  /\ fields' = b.fields
           /\ rectState' = b.rectState
           /\ editingFieldId' = b.editingFieldId
           /\ sidebarKey' = b.sidebarKey
    /\ focus' = [kind |-> "inline", id |-> id]
    /\ UNCHANGED <<selectedFieldId, drawingState, pageDimensions, templateName,
                   pdfUrl, pageCount>>
    /\ UNCHANGED <<over, buttonDown, gestures, nextId>>
    /\ UNCHANGED modalVars
    /\ UNCHANGED <<toast, saved>>
    /\ UNCHANGED pureVars

\* the inline input's onChange
InlineType(text) ==
    /\ focus.kind = "inline"
    /\ text \in TypedKeys
    /\ rectState' = [rectState EXCEPT ![focus.id].editingKey = text]
    /\ UNCHANGED storeVars
    /\ UNCHANGED <<editingFieldId, sidebarKey, focus, over, buttonDown,
                   gestures, nextId>>
    /\ UNCHANGED modalVars
    /\ UNCHANGED <<toast, saved>>
    /\ UNCHANGED pureVars

\* Enter in the inline input: handleKeyDown -> handleSaveEdit
InlineEnter ==
    /\ focus.kind = "inline"
    /\ fields' = InlineSaveEdit(fields, rectState, focus.id).fields
    /\ rectState' = InlineSaveEdit(fields, rectState, focus.id).rectState
    /\ focus' = NoFocus
    /\ UNCHANGED <<selectedFieldId, drawingState, pageDimensions, templateName,
                   pdfUrl, pageCount>>
    /\ UNCHANGED <<editingFieldId, sidebarKey, over, buttonDown, gestures, nextId>>
    /\ UNCHANGED modalVars
    /\ UNCHANGED <<toast, saved>>
    /\ UNCHANGED pureVars

\* Escape in the inline input: handleKeyDown -> handleCancelEdit
InlineEscape ==
    /\ focus.kind = "inline"
    /\ rectState' = InlineCancelEdit(fields, rectState, focus.id)
    /\ focus' = NoFocus
    /\ UNCHANGED storeVars
    /\ UNCHANGED <<editingFieldId, sidebarKey, over, buttonDown, gestures, nextId>>
    /\ UNCHANGED modalVars
    /\ UNCHANGED <<toast, saved>>
    /\ UNCHANGED pureVars

\* the focused rename input loses focus (Tab, a click on the page chrome)
Blur ==
    /\ focus.kind # "none"
    /\ LET b == Blurred(focus, fields, rectState, editingFieldId, sidebarKey)
       IN  /\ fields' = b.fields
           /\ rectState' = b.rectState
           /\ editingFieldId' = b.editingFieldId
           /\ sidebarKey' = b.sidebarKey
    /\ focus' = NoFocus
    /\ UNCHANGED <<selectedFieldId, drawingState, pageDimensions, templateName,
                   pdfUrl, pageCount>>
    /\ UNCHANGED <<over, buttonDown, gestures, nextId>>
    /\ UNCHANGED modalVars
    /\ UNCHANGED <<toast, saved>>
    /\ UNCHANGED pureVars

(***************************************************************************)
(* FieldSidebar.  A click in the sidebar happens with the pointer outside  *)
(* the overlays and the button released; the focused rename input loses    *)
(* focus at its pointer-down.                                              *)
(***************************************************************************)
SidebarClickable == over = 0 /\ ~buttonDown

\* handleSelectField, from a click on a field's list item
SidebarSelect(id) ==
    /\ SidebarClickable
    /\ id \in FieldIds(fields)
    /\ LET b == Blurred(focus, fields, rectState, editingFieldId, sidebarKey)
       IN  /\ fields' = b.fields
           /\ rectState' = b.rectState
           /\ editingFieldId' = b.editingFieldId
           /\ sidebarKey' = b.sidebarKey
    /\ focus' = NoFocus
    /\ selectedFieldId' = setSelectedFieldId(id)
    /\ UNCHANGED <<drawingState, pageDimensions, templateName, pdfUrl, pageCount>>
    /\ UNCHANGED <<over, buttonDown, gestures, nextId>>
    /\ UNCHANGED modalVars
    /\ UNCHANGED <<toast, saved>>
    /\ UNCHANGED pureVars

\* handleStartEdit, from the rename button of a field's list item, which is
\* rendered while that field is not being renamed; the input it shows has
\* autoFocus
SidebarStartEdit(id) ==
    /\ SidebarClickable
    /\ id \in FieldIds(fields)
    /\ editingFieldId # id
    /\ LET b == Blurred(focus, fields, rectState, editingFieldId, sidebarKey)
       IN  /\ fields' = b.fields
           /\ rectState' = b.rectState
           /\ sidebarKey' = FieldOf(b.fields, id).key
    /\ editingFieldId' = id
    /\ focus' = [kind |-> "sidebar", id |-> id]
    /\ UNCHANGED <<selectedFieldId, drawingState, pageDimensions, templateName,
                   pdfUrl, pageCount>>
    /\ UNCHANGED <<over, buttonDown, gestures, nextId>>
    /\ UNCHANGED modalVars
    /\ UNCHANGED <<toast, saved>>
    /\ UNCHANGED pureVars

\* the sidebar input's onChange: setEditingKey
SidebarType(text) ==
    /\ focus.kind = "sidebar"
    /\ text \in TypedKeys
    /\ sidebarKey' = text
    /\ UNCHANGED storeVars
    /\ UNCHANGED <<rectState, editingFieldId, focus, over, buttonDown,
                   gestures, nextId>>
    /\ UNCHANGED modalVars
    /\ UNCHANGED <<toast, saved>>
    /\ UNCHANGED pureVars

\* Enter in the sidebar input: handleSaveEdit
SidebarEnter ==
    /\ focus.kind = "sidebar"
    /\ fields' = SidebarSavedFields(fields, editingFieldId, sidebarKey)
    /\ editingFieldId' = NoId
    /\ sidebarKey' = <<>>
    /\ focus' = NoFocus
    /\ UNCHANGED <<selectedFieldId, drawingState, pageDimensions, templateName,
                   pdfUrl, pageCount>>
    /\ UNCHANGED <<rectState, over, buttonDown, gestures, nextId>>
    /\ UNCHANGED modalVars
    /\ UNCHANGED <<toast, saved>>
    /\ UNCHANGED pureVars

\* Escape in the sidebar input: handleCancelEdit
SidebarEscape ==
    /\ focus.kind = "sidebar"
    /\ editingFieldId' = NoId
    /\ sidebarKey' = <<>>
    /\ focus' = NoFocus
    /\ UNCHANGED storeVars
    /\ UNCHANGED <<rectState, over, buttonDown, gestures, nextId>>
    /\ UNCHANGED modalVars
    /\ UNCHANGED <<toast, saved>>
    /\ UNCHANGED pureVars

\* a click on the cancel button next to the sidebar input.  The input loses
\* focus at the pointer-down and its onBlur (handleSaveEdit) runs first; the
\* button is unmounted with the input, and the click that follows reaches
\* no handler or the list item's onClick (handleSelectField).
SidebarCancelClick ==
    /\ SidebarClickable
    /\ focus.kind = "sidebar"
    /\ editingFieldId # NoId
    /\ fields' = SidebarSavedFields(fields, editingFieldId, sidebarKey)
    /\ editingFieldId' = NoId
    /\ sidebarKey' = <<>>
    /\ focus' = NoFocus
    /\ selectedFieldId' \in {selectedFieldId, setSelectedFieldId(editingFieldId)}
    /\ UNCHANGED <<drawingState, pageDimensions, templateName, pdfUrl, pageCount>>
    /\ UNCHANGED <<rectState, over, buttonDown, gestures, nextId>>
    /\ UNCHANGED modalVars
    /\ UNCHANGED <<toast, saved>>
    /\ UNCHANGED pureVars

\* handleDelete, from the delete button of a field's list item
HandleDelete(id) ==
    /\ SidebarClickable
    /\ id \in FieldIds(fields)
    /\ LET b == Blurred(focus, fields, rectState, editingFieldId, sidebarKey)
           r == removeField(b.fields, selectedFieldId, id)
           eid == IF b.editingFieldId = id THEN NoId ELSE b.editingFieldId
       IN  /\ fields' = r.fields
           /\ selectedFieldId' = r.selectedFieldId
           /\ editingFieldId' = eid
           /\ sidebarKey' = b.sidebarKey
           /\ rectState' = Remount(b.rectState, r.fields, pageDimensions)
    /\ focus' = NoFocus
    /\ UNCHANGED <<drawingState, pageDimensions, templateName, pdfUrl, pageCount>>
    /\ UNCHANGED <<over, buttonDown, gestures, nextId>>
    /\ UNCHANGED modalVars
    /\ UNCHANGED <<toast, saved>>
    /\ UNCHANGED pureVars

\* the registry's removeField called with an id it does not hold
RemoveAbsent(id) ==
    /\ id \notin FieldIds(fields)
    /\ fields' = removeField(fields, selectedFieldId, id).fields
    /\ selectedFieldId' = removeField(fields, selectedFieldId, id).selectedFieldId
    /\ UNCHANGED <<drawingState, pageDimensions, templateName, pdfUrl, pageCount>>
    /\ UNCHANGED editorVars
    /\ UNCHANGED modalVars
    /\ UNCHANGED <<toast, saved>>
    /\ UNCHANGED pureVars

(***************************************************************************)
(* JavaScript values, as JSON.parse returns them: a record tagged with its *)
(* type; a string is the sequence of its characters.                       *)
(***************************************************************************)
VUndefined == [t |-> "undefined"]
VNull == [t |-> "null"]
VFunction == [t |-> "function"]
VStr(s) == [t |-> "string", s |-> s]
VBool(b) == [t |-> "boolean", b |-> b]
VNum(n) == [t |-> "number", n |-> n]
VArr(items) == [t |-> "array", items |-> items]
\* a template object; an absent property is undefined
VTemplate(name, flds) == [t |-> "object", name |-> name, fields |-> flds]
\* a file whose text JSON.parse rejects
Unparsable == [t |-> "unparsable"]

(***************************************************************************)
(* Template import: FieldSidebar.handleImport and                          *)
(* MapperPage.handleImportTemplate, once the file is read.                 *)
(***************************************************************************)
\* a field of a template file
ImportedField ==
    [id |-> 101, key |-> <<"name">>, type |-> "text", page_number |-> 1,
     fontSize |-> "medium",
     rect |-> [x |-> Rat(1, 10), y |-> Rat(1, 5), w |-> Rat(3, 10), h |-> Rat(1, 20)]]

\* the template files with a fields array: one with a name and a field, one
\* with neither
ImportFiles ==
    {VTemplate(VStr(<<"t">>), VArr(<<ImportedField>>)),
     VTemplate(VUndefined, VArr(<<>>))}

\* the files without a fields array: text that is not JSON, null, a bare
\* array, an object without fields, objects whose fields is no array
MalformedFiles ==
    {Unparsable,
     VNull,
     VArr(<<ImportedField>>),
     VTemplate(VStr(<<"m">>), VUndefined),
     VTemplate(VStr(<<"m">>), VStr(<<"x">>)),
     VTemplate(VUndefined, VNull)}

TemplateFiles == ImportFiles \cup MalformedFiles

\* a template file with two fields on page 1 and one on page 2
LayoutFields ==
    <<ImportedField,
      [id |-> 102, key |-> <<"city">>, type |-> "text", page_number |-> 1,
       fontSize |-> "medium",
       rect |-> [x |-> Rat(4, 5), y |-> Rat(1, 2), w |-> Rat(1, 10), h |-> Rat(1, 10)]],
      [id |-> 103, key |-> <<"sign">>, type |-> "checkbox", page_number |-> 2,
       fontSize |-> "medium",
       rect |-> [x |-> Rat(1, 5), y |-> Rat(1, 5), w |-> Rat(1, 5), h |-> Rat(1, 5)]]>>

LayoutFiles == {VTemplate(VStr(<<"l">>), VArr(LayoutFields))}

\* a field read from a parsed file: a property the file lacks reads undefined
ReadField(o) ==
    IF "fontSize" \in DOMAIN o THEN o ELSE o @@ [fontSize |-> "undefined"]

ReadFields(items) == [i \in DOMAIN items |-> ReadField(items[i])]

\* the ids a caller may pass to the registry
IdUniverse == 1..(MaxFields + 1) \cup {101}

\* toast.success(message) and toast.error(message)
ToastSuccess(message) == [kind |-> "success", message |-> message]
ToastError(message) == [kind |-> "error", message |-> message]

\* the catch block: nothing was set
ImportFailed(name, flds) ==
    [toast |-> ToastError("Failed to import template"),
     templateName |-> name, fields |-> flds]

\* data.fields; only an object of the model has the property
FieldsOfFile(data) == IF data.t = "object" THEN data.fields ELSE VUndefined

\* a handler that sets the name before it looks at data.fields
handleImportNameFirst(data, name, flds) ==
    IF data.t \in {"unparsable", "null"}
    THEN ImportFailed(name, flds)
    ELSE LET named == IF data.t = "object" /\ data.name.t = "string" /\ data.name.s # <<>>
                      THEN data.name.s ELSE name
         IN  IF FieldsOfFile(data).t # "array"
             THEN ImportFailed(named, flds)
             ELSE [toast |-> ToastSuccess("Template imported successfully"),
                   templateName |-> named,
                   fields |-> ReadFields(FieldsOfFile(data).items)]

\* the try block of handleImport on the file data, with the current name and
\* fields: readJsonFile rejects text that is not JSON, data.fields throws on
\* null, and the handler throws unless data.fields is an array
handleImport(data, name, flds) ==
    IF data.t \in {"unparsable", "null"}
    THEN ImportFailed(name, flds)
    ELSE IF FieldsOfFile(data).t # "array"
    THEN ImportFailed(name, flds)
    ELSE [toast |-> ToastSuccess("Template imported successfully"),
          templateName |-> IF data.name.t = "string" /\ data.name.s # <<>>
                           THEN data.name.s ELSE name,
          fields |-> ReadFields(FieldsOfFile(data).items)]

\* the files the user can pick: the files on disk and the downloaded one
PickableFiles(file) == TemplateFiles \cup ({file} \ {NoFile})

Import(data) ==
    /\ pdfUrl # NoUrl
    /\ data \in PickableFiles(saved) \cup LayoutFiles
    /\ LET out == handleImport(data, templateName, fields)
       IN  /\ templateName' = out.templateName
           /\ fields' = IF out.toast.kind = "success" THEN setFields(out.fields) ELSE fields
           /\ toast' = out.toast
    /\ rectState' = Remount(rectState, fields', pageDimensions)
    /\ focus' = FocusKept(focus, fields', rectState', editingFieldId)
    /\ UNCHANGED <<selectedFieldId, drawingState, pageDimensions, pdfUrl, pageCount>>
    /\ UNCHANGED <<editingFieldId, sidebarKey, over, buttonDown, gestures, nextId>>
    /\ UNCHANGED modalVars
    /\ UNCHANGED saved
    /\ UNCHANGED pureVars

(***************************************************************************)
(* Template export: FieldSidebar.handleExport and                          *)
(* MapperPage.handleSaveTemplate.                                          *)
(***************************************************************************)
\* templateName || 'Untitled Template'
ExportedName(name) == IF name # <<>> THEN name ELSE <<"Untitled Template">>

\* new Date().toISOString()
Now == VStr(<<"now">>)

\* const exportData of handleExport
exportData(name, flds) ==
    [t |-> "object", name |-> VStr(ExportedName(name)), created_at |-> Now,
     version |-> VStr(<<"1.0.0">>), fields |-> VArr(flds)]

\* const template of handleSaveTemplate
template(name, count, flds) ==
    [t |-> "object", name |-> VStr(ExportedName(name)), created_at |-> Now,
     version |-> VStr(<<"1.0.0">>), page_count |-> VNum(count),
     fields |-> VArr(flds)]

\* JSON.stringify leaves out a property whose value is undefined
JSONField(f) ==
    [k \in DOMAIN f \ (IF f.fontSize = "undefined" THEN {"fontSize"} ELSE {})
       |-> f[k]]

\* downloadJson: the object as JSON.parse reads it back from the file
downloadJson(data) ==
    [data EXCEPT !.fields =
        VArr([i \in DOMAIN data.fields.items |-> JSONField(data.fields.items[i])])]

HandleExport ==
    /\ pdfUrl # NoUrl
    /\ IF fields = <<>>
       THEN /\ toast' = ToastError("No fields to export")
            /\ UNCHANGED saved
       ELSE /\ saved' = downloadJson(exportData(templateName, fields))
            /\ toast' = ToastSuccess("Template exported successfully")
    /\ UNCHANGED <<storeVars, editorVars, modalVars>>
    /\ UNCHANGED pureVars

\* the Save Template button is disabled without fields
HandleSaveTemplate ==
    /\ pdfUrl # NoUrl
    /\ fields # <<>>
    /\ saved' = downloadJson(template(templateName, pageCount, fields))
    /\ toast' = ToastSuccess("Template saved to disk")
    /\ UNCHANGED <<storeVars, editorVars, modalVars>>
    /\ UNCHANGED pureVars

(***************************************************************************)
(* The sidebar's properties panel: FieldSidebar.handleRectChange and       *)
(* handleApplyToAll.                                                       *)
(***************************************************************************)
NaN == [nan |-> TRUE]

IsDigit(c) == \E n \in 0..9 : NumStr(n) = c
DigitValue(c) == CHOOSE n \in 0..9 : NumStr(n) = c

\* the number of leading decimal digits
RECURSIVE DigitCount(_)
DigitCount(s) ==
    IF s = <<>> \/ ~IsDigit(Head(s)) THEN 0 ELSE 1 + DigitCount(Tail(s))

\* the value of a sequence of decimal digits
RECURSIVE DigitsValue(_)
DigitsValue(s) ==
    IF s = <<>> THEN 0
    ELSE 10 * DigitsValue(SubSeq(s, 1, Len(s) - 1)) + DigitValue(s[Len(s)])

RECURSIVE Pow10(_)
Pow10(n) == IF n = 0 THEN 1 ELSE 10 * Pow10(n - 1)

\* parseFloat: the longest prefix that reads as a decimal number, after
\* leading blanks and a sign; NaN without a digit
parseFloat(text) ==
    LET s == TrimLeft(text)
        signed == s # <<>> /\ Head(s) \in {"-", "+"}
        body == IF signed THEN Tail(s) ELSE s
        n1 == DigitCount(body)
        rest == SubSeq(body, n1 + 1, Len(body))
        n2 == IF rest # <<>> /\ Head(rest) = "." THEN DigitCount(Tail(rest)) ELSE 0
        mag == Rat(DigitsValue(SubSeq(body, 1, n1)) * Pow10(n2)
                     + DigitsValue(SubSeq(rest, 2, n2 + 1)), Pow10(n2))
    IN  IF n1 + n2 = 0 THEN NaN
        ELSE IF signed /\ Head(s) = "-" THEN RSub(RZero, mag) ELSE mag

\* the texts typed into a number input of the panel
RectTexts ==
    {<<>>, <<"0">>, <<"5", "0">>, <<"1", "0", "0">>, <<"1", "5", "0">>,
     <<"-", "5">>, <<"0", ".", "5">>}

RectProperties == {"x", "y", "w", "h"}

\* a handler that clamps the entered value and corrects nothing else
ChangedRectUncorrected(rect, property, numValue) ==
    [rect EXCEPT ![property] =
        RDivInt(RMax(RZero, RMin(RInt(100), numValue)), 100)]

\* newRect of handleRectChange for a parsed number
ChangedRect(rect, property, numValue) ==
    LET clampedValue == RDivInt(RMax(RZero, RMin(RInt(100), numValue)), 100)
        newRect == [rect EXCEPT ![property] = clampedValue]
    IN  CASE property = "x" /\ RLt(ROne, RAdd(newRect.x, newRect.w)) ->
                [newRect EXCEPT !.w = RSub(ROne, newRect.x)]
          [] property = "y" /\ RLt(ROne, RAdd(newRect.y, newRect.h)) ->
                [newRect EXCEPT !.h = RSub(ROne, newRect.y)]
          [] property = "w" /\ RLt(ROne, RAdd(newRect.x, newRect.w)) ->
                [newRect EXCEPT !.x = RSub(ROne, newRect.w)]
          [] property = "h" /\ RLt(ROne, RAdd(newRect.y, newRect.h)) ->
                [newRect EXCEPT !.y = RSub(ROne, newRect.h)]
          [] OTHER -> newRect

\* handleRectChange: the fields it leaves
handleRectChange(fs, sel, property, value) ==
    IF sel = NoId \/ sel \notin FieldIds(fs) THEN fs
    ELSE IF parseFloat(value) = NaN THEN fs
    ELSE updateField(fs, sel,
            [rect |-> ChangedRect(FieldOf(fs, sel).rect, property, parseFloat(value))])

ApplyOptions == {"w", "h", "both"}

\* a bulk action that also re-clamps the recipients to the page
handleApplyToAllClamped(fs, sel, property) ==
    IF sel \notin FieldIds(fs) THEN fs
    ELSE LET selectedField == FieldOf(fs, sel)
         IN  [i \in DOMAIN fs |->
                IF fs[i].page_number = selectedField.page_number /\ fs[i].id # sel
                THEN LET w == IF property \in {"w", "both"}
                              THEN selectedField.rect.w ELSE fs[i].rect.w
                         h == IF property \in {"h", "both"}
                              THEN selectedField.rect.h ELSE fs[i].rect.h
                     IN  [fs[i] EXCEPT !.rect =
                            [x |-> RMin(fs[i].rect.x, RSub(ROne, w)),
                             y |-> RMin(fs[i].rect.y, RSub(ROne, h)),
                             w |-> w, h |-> h]]
                ELSE fs[i]]

\* handleApplyToAll: the fields it leaves
handleApplyToAll(fs, sel, property) ==
    IF sel \notin FieldIds(fs) THEN fs
    ELSE LET selectedField == FieldOf(fs, sel)
         IN  [i \in DOMAIN fs |->
                IF fs[i].page_number = selectedField.page_number /\ fs[i].id # sel
                THEN [fs[i] EXCEPT
                        !.rect.w = IF property \in {"w", "both"}
                                   THEN selectedField.rect.w ELSE @,
                        !.rect.h = IF property \in {"h", "both"}
                                   THEN selectedField.rect.h ELSE @]
                ELSE fs[i]]

\* onChange of a number input of the selected field's panel; the input
\* takes the focus from a rename input.  Without a selected field the
\* handler returns at once.
HandleRectChange(property, value) ==
    /\ SidebarClickable
    /\ gestures < MaxGestures
    /\ gestures' = gestures + 1
    /\ LET b == Blurred(focus, fields, rectState, editingFieldId, sidebarKey)
       IN  /\ fields' = handleRectChange(b.fields, selectedFieldId, property, value)
           /\ rectState' = b.rectState
           /\ editingFieldId' = b.editingFieldId
           /\ sidebarKey' = b.sidebarKey
    /\ focus' = NoFocus
    /\ UNCHANGED <<selectedFieldId, drawingState, pageDimensions, templateName,
                   pdfUrl, pageCount>>
    /\ UNCHANGED <<over, buttonDown, nextId>>
    /\ UNCHANGED modalVars
    /\ UNCHANGED <<toast, saved>>
    /\ UNCHANGED pureVars

\* handleApplyToAll, from Width, Height or Both of "Apply to All (Same
\* Page)"; without a selected field the handler returns at once
HandleApplyToAll(property) ==
    /\ SidebarClickable
    /\ gestures < MaxGestures
    /\ gestures' = gestures + 1
    /\ LET b == Blurred(focus, fields, rectState, editingFieldId, sidebarKey)
       IN  /\ fields' = handleApplyToAll(b.fields, selectedFieldId, property)
           /\ rectState' = b.rectState
           /\ editingFieldId' = b.editingFieldId
           /\ sidebarKey' = b.sidebarKey
    /\ focus' = NoFocus
    /\ UNCHANGED <<selectedFieldId, drawingState, pageDimensions, templateName,
                   pdfUrl, pageCount>>
    /\ UNCHANGED <<over, buttonDown, nextId>>
    /\ UNCHANGED modalVars
    /\ UNCHANGED <<toast, saved>>
    /\ UNCHANGED pureVars

(***************************************************************************)
(* GenerationModal with the debounced auto-preview.                        *)
(***************************************************************************)

\* an effect whose callback reads the text of the render before
DebounceEffectOfPreviousText(open, url, json, preview) ==
    IF ~open \/ url = NoUrl \/ json.kind = "empty"
    THEN NoTimer
    ELSE [pending |-> TRUE,
          json |-> [json EXCEPT !.version = @ - 1],
          previewUrl |-> preview]

\* the debounce effect, run after a render in which jsonInput, isOpen or
\* pdfUrl changed: the previous timer is cleared by the cleanup, a new one is
\* set unless the modal is closed, there is no document or the text is ''.
\* Its callback calls the handlePreview of that render, which closes over
\* that render's jsonInput and previewUrl.
DebounceEffect(open, url, json, preview) ==
    IF ~open \/ url = NoUrl \/ json.kind = "empty"
    THEN NoTimer
    ELSE [pending |-> TRUE, json |-> json, previewUrl |-> preview]

\* the kinds of text the user can leave in the data editor
JsonKinds == {"empty", "valid", "invalid"}

\* the object URL created by the n-th started render
UrlOfRequest(n) == n + 1

\* the request that produced an object URL
RequestOfUrl(url) == url - 1

\* setIsGenerationModalOpen(true); the button is disabled without fields.
\* The "initial sample" effect fills an empty jsonInput.
OpenModal ==
    /\ ~isOpen
    /\ Len(fields) > 0
    /\ opens < MaxOpens
    /\ isOpen' = TRUE
    /\ opens' = opens + 1
    /\ jsonInput' = IF jsonInput.kind = "empty"
                    THEN [version |-> jsonInput.version + 1, kind |-> "valid"]
                    ELSE jsonInput
    /\ timer' = DebounceEffect(TRUE, pdfUrl, jsonInput', previewUrl)
    /\ UNCHANGED <<isGenerating, previewUrl, inflight, blobs, revoked,
                   renderFailed, started, edits>>
    /\ UNCHANGED <<storeVars, editorVars>>
    /\ UNCHANGED <<toast, saved>>
    /\ UNCHANGED pureVars

\* onClose: the component stays mounted and keeps its state
CloseModal ==
    /\ isOpen
    /\ isOpen' = FALSE
    /\ timer' = DebounceEffect(FALSE, pdfUrl, jsonInput, previewUrl)
    /\ UNCHANGED <<jsonInput, isGenerating, previewUrl, inflight, blobs,
                   revoked, renderFailed, started, edits, opens>>
    /\ UNCHANGED <<storeVars, editorVars>>
    /\ UNCHANGED <<toast, saved>>
    /\ UNCHANGED pureVars

\* the textarea's onChange (any text) or a form control (handleFieldChange)
EditJson(kind) ==
    /\ isOpen
    /\ edits < MaxEdits
    /\ kind \in JsonKinds
    /\ edits' = edits + 1
    /\ jsonInput' = [version |-> jsonInput.version + 1, kind |-> kind]
    /\ timer' = DebounceEffect(isOpen, pdfUrl, jsonInput', previewUrl)
    /\ UNCHANGED <<isOpen, isGenerating, previewUrl, inflight, blobs, revoked,
                   renderFailed, started, opens>>
    /\ UNCHANGED <<storeVars, editorVars>>
    /\ UNCHANGED <<toast, saved>>
    /\ UNCHANGED pureVars

\* the debounce timer fires: handlePreview up to its first await
TimerFires ==
    /\ timer.pending
    /\ timer' = NoTimer
    /\ IF timer.json.kind = "valid"
       THEN /\ started' = started + 1
            /\ inflight' = inflight \cup
                   {[req |-> started + 1, version |-> timer.json.version,
                     previewUrl |-> timer.previewUrl]}
            /\ isGenerating' = TRUE
       ELSE /\ isGenerating' = FALSE
            /\ UNCHANGED <<started, inflight>>
    /\ UNCHANGED <<isOpen, jsonInput, previewUrl, blobs, revoked,
                   renderFailed, edits, opens>>
    /\ UNCHANGED <<storeVars, editorVars>>
    /\ UNCHANGED <<toast, saved>>
    /\ UNCHANGED pureVars

\* a component without the cleanup effect: only the previewUrl the handler
\* closed over is revoked
PreviewDoneWithoutCleanup(r) ==
    /\ r \in inflight
    /\ inflight' = inflight \ {r}
    /\ previewUrl' = UrlOfRequest(r.req)
    /\ blobs' = blobs @@ (UrlOfRequest(r.req) :> r.version)
    /\ revoked' = revoked \cup ({r.previewUrl} \ {NoUrl})
    /\ isGenerating' = FALSE
    /\ UNCHANGED <<isOpen, jsonInput, timer, renderFailed, started, edits, opens>>
    /\ UNCHANGED <<storeVars, editorVars>>
    /\ UNCHANGED <<toast, saved>>
    /\ UNCHANGED pureVars

\* a handlePreview call resumes after its last await and succeeds: it
\* revokes the previewUrl of its own render, publishes the new object URL;
\* the cleanup effect revokes the URL that was current.
PreviewDone(r) ==
    /\ r \in inflight
    /\ inflight' = inflight \ {r}
    /\ previewUrl' = UrlOfRequest(r.req)
    /\ blobs' = blobs @@ (UrlOfRequest(r.req) :> r.version)
    /\ revoked' = revoked \cup ({r.previewUrl, previewUrl} \ {NoUrl})
    /\ isGenerating' = FALSE
    /\ UNCHANGED <<isOpen, jsonInput, timer, renderFailed, started, edits, opens>>
    /\ UNCHANGED <<storeVars, editorVars>>
    /\ UNCHANGED <<toast, saved>>
    /\ UNCHANGED pureVars

\* a handler whose catch block resets the registry's fields
PreviewFailsAndResets(r) ==
    /\ r \in inflight
    /\ inflight' = inflight \ {r}
    /\ isGenerating' = FALSE
    /\ renderFailed' = TRUE
    /\ fields' = <<>>
    /\ UNCHANGED <<isOpen, jsonInput, previewUrl, timer, blobs, revoked,
                   started, edits, opens>>
    /\ UNCHANGED <<selectedFieldId, drawingState, pageDimensions, templateName,
                   pdfUrl, pageCount>>
    /\ UNCHANGED editorVars
    /\ UNCHANGED <<toast, saved>>
    /\ UNCHANGED pureVars

\* a handlePreview call throws after an await: catch, then finally
PreviewFails(r) ==
    /\ r \in inflight
    /\ inflight' = inflight \ {r}
    /\ isGenerating' = FALSE
    /\ renderFailed' = TRUE
    /\ UNCHANGED <<isOpen, jsonInput, previewUrl, timer, blobs, revoked,
                   started, edits, opens>>
    /\ UNCHANGED <<storeVars, editorVars>>
    /\ UNCHANGED <<toast, saved>>
    /\ UNCHANGED pureVars

\* some render in flight completes
SomePreviewDone == \E r \in inflight : PreviewDone(r)

NextModalOps ==
    \/ OpenModal
    \/ CloseModal
    \/ \E kind \in JsonKinds : EditJson(kind)
    \/ TimerFires
    \/ SomePreviewDone
    \/ \E r \in inflight : PreviewFails(r)

\* the preview: a document, a template, and the modal
NextPreview ==
    \/ Upload
    \/ \E data \in PickableFiles(saved) : Import(data)
    \/ NextModalOps

SpecPreview == Init /\ [][NextPreview]_vars

\* timers fire and started renders return: the browser's event loop runs
\* every due timer callback and every settled promise continuation
FairSpecPreview ==
    SpecPreview /\ WF_vars(TimerFires) /\ WF_vars(SomePreviewDone)


(***************************************************************************)
(* Generation: the "Overlay Data" loop of handlePreview / handleGenerate.  *)
(* The values of the parsed data record are the tagged JavaScript values.   *)
(***************************************************************************)

\* the properties every object inherits from Object.prototype
ObjectPrototypeKeys == {<<"constructor">>}

\* data[key] of a parsed JSON object
Lookup(data, key) ==
    IF key \in DOMAIN data THEN data[key]
    ELSE IF key \in ObjectPrototypeKeys THEN VFunction
    ELSE VUndefined

\* String(value) of a value that is not an array
ScalarToString(v) ==
    CASE v.t = "string" -> v.s
      [] v.t = "boolean" -> IF v.b THEN <<"t", "r", "u", "e">>
                            ELSE <<"f", "a", "l", "s", "e">>
      [] v.t = "number" -> <<NumStr(v.n)>>
      [] v.t = "null" -> <<"n", "u", "l", "l">>
      [] v.t = "undefined" -> <<"u", "n", "d", "e", "f", "i", "n", "e", "d">>
      [] OTHER -> <<"function () { [native code] }">>

\* Array.prototype.join(','): null and undefined items print as ''
RECURSIVE JoinItems(_)
JoinItems(items) ==
    LET one(v) == IF v.t \in {"null", "undefined"} THEN <<>>
                  ELSE ScalarToString(v)
    IN  IF items = <<>> THEN <<>>
        ELSE IF Len(items) = 1 THEN one(Head(items))
        ELSE one(Head(items)) \o <<",">> \o JoinItems(Tail(items))

\* String(value)
String(v) == IF v.t = "array" THEN JoinItems(v.items) ELSE ScalarToString(v)

UpperLetters == <<"A", "D", "E", "R", "S", "T", "U", "Y">>
LowerLetters == <<"a", "d", "e", "r", "s", "t", "u", "y">>

\* String.prototype.toLowerCase
toLowerCase(s) ==
    [i \in DOMAIN s |->
        IF \E k \in DOMAIN UpperLetters : UpperLetters[k] = s[i]
        THEN LowerLetters[CHOOSE k \in DOMAIN UpperLetters : UpperLetters[k] = s[i]]
        ELSE s[i]]

\* a skip test that lets the empty string through
IsSkippedValueButEmpty(value) == value = VUndefined \/ value = VNull

\* a skip test by falsiness: !value
IsSkippedValueFalsy(value) ==
    value \in {VUndefined, VNull, VStr(<<>>), VBool(FALSE), VNum(0)}

\* value === undefined || value === null || value === ''
IsSkippedValue(value) ==
    value = VUndefined \/ value = VNull \/ value = VStr(<<>>)

\* a font size lookup that falls back to small
fontSizeOfFieldOrSmall(field) ==
    CASE field.fontSize = "medium" -> 9
      [] field.fontSize = "large" -> 12
      [] OTHER -> 7

\* fontSizeMap[field.fontSize || 'medium']
fontSizeOfField(field) ==
    CASE field.fontSize = "small" -> 7
      [] field.fontSize = "large" -> 12
      [] OTHER -> 9

\* String(value).toLowerCase() === 'true' || value === true
IsChecked(value) ==
    toLowerCase(String(value)) = <<"t", "r", "u", "e">> \/ value = VBool(TRUE)

\* a loop that draws a field of a page beyond the document on the last page
OverlayFieldOnLastPage(field, data, pages) ==
    LET value == Lookup(data, field.key)
        page_number == IF field.page_number > Len(pages) THEN Len(pages)
                       ELSE field.page_number
        fontSize == fontSizeOfField(field)
    IN  IF IsSkippedValue(value) \/ page_number < 1 THEN <<>>
        ELSE IF field.type = "checkbox" /\ ~IsChecked(value) THEN <<>>
        ELSE LET size == pages[page_number]
             IN  <<[kind |-> IF field.type = "checkbox" THEN "mark" ELSE "text",
                    page |-> page_number,
                    text |-> IF field.type = "checkbox" THEN <<"X">>
                             ELSE String(value),
                    x |-> RAdd(RMul(field.rect.x, RInt(size.width)), RInt(2)),
                    y |-> RSub(RSub(RSub(RInt(size.height),
                                         RMul(field.rect.y, RInt(size.height))),
                                    RInt(fontSize)), RInt(2)),
                    size |-> fontSize]>>

\* the page.drawText calls one field makes: none, or one
OverlayField(field, data, pages) ==
    LET value == Lookup(data, field.key)
        pageIndex == field.page_number - 1
        size == pages[field.page_number]
        fontSize == fontSizeOfField(field)
        x == RAdd(RMul(field.rect.x, RInt(size.width)), RInt(2))
        y == RSub(RSub(RSub(RInt(size.height),
                            RMul(field.rect.y, RInt(size.height))),
                       RInt(fontSize)), RInt(2))
        boxWidth == RSub(RMul(field.rect.w, RInt(size.width)), RInt(4))
        lineHeight == Rat(fontSize * 6, 5)
    IN  IF IsSkippedValue(value) THEN <<>>
        ELSE IF pageIndex < 0 \/ pageIndex >= Len(pages) THEN <<>>
        ELSE IF field.type = "checkbox"
        THEN IF IsChecked(value)
             THEN <<[kind |-> "mark", page |-> field.page_number,
                     text |-> <<"X">>, x |-> x, y |-> y, size |-> fontSize]>>
             ELSE <<>>
        ELSE <<[kind |-> "text", page |-> field.page_number,
                text |-> String(value), x |-> x, y |-> y, size |-> fontSize,
                maxWidth |-> boxWidth, lineHeight |-> lineHeight]>>

\* for (const field of fields) { ... }
RECURSIVE OverlayData(_, _, _)
OverlayData(fs, data, pages) ==
    IF fs = <<>> THEN <<>>
    ELSE OverlayField(Head(fs), data, pages) \o OverlayData(Tail(fs), data, pages)

(***************************************************************************)
(* The functions of src/lib/coordinates.ts called on their own.            *)
(***************************************************************************)
\* pointer coordinates of a drag, relative to the overlay
DragCoords == {-3, 0, 5, 15}

\* page dimensions, in pixels or in document points
CallDims ==
    {[width |-> 600, height |-> 800], [width |-> 612, height |-> 792],
     [width |-> 3, height |-> 7]}

\* normalized rects inside the page
CallFractions == {RZero, Rat(1, 10), Rat(1, 3), Rat(1, 2)}
CallPercentRects ==
    {r \in [x : CallFractions, y : CallFractions,
            w : CallFractions, h : CallFractions] :
        RLe(RAdd(r.x, r.w), ROne) /\ RLe(RAdd(r.y, r.h), ROne)}

\* pixel rects: whole and fractional pixels
CallPixels == {RZero, RInt(5), Rat(1, 2), RInt(145)}
CallPixelRects ==
    [x : CallPixels, y : {RZero, RInt(10)}, w : CallPixels, h : {RInt(30)}]

NormalizeRectCalls ==
    [fn : {"normalizeRect"}, startX : DragCoords, startY : DragCoords,
     endX : DragCoords, endY : DragCoords]

PDFCoordsCalls ==
    [fn : {"percentageToPDFCoords"}, rect : CallPercentRects, dims : CallDims]

ToPercentageCalls ==
    [fn : {"pixelsToPercentage"}, rect : CallPixelRects, dims : CallDims]

ToPixelsCalls ==
    [fn : {"percentageToPixels"}, rect : CallPercentRects, dims : CallDims]

CoordinateCalls ==
    NormalizeRectCalls \cup PDFCoordsCalls \cup ToPercentageCalls
        \cup ToPixelsCalls

CallNormalizeRect ==
    /\ call.fn = "normalizeRect"
    /\ result = NoResult
    /\ result' = [fn |-> "normalizeRect",
                  value |-> normalizeRect(call.startX, call.startY,
                                          call.endX, call.endY)]
    /\ UNCHANGED <<storeVars, editorVars, modalVars, toast, saved, call>>

CallPercentageToPDFCoords ==
    /\ call.fn = "percentageToPDFCoords"
    /\ result = NoResult
    /\ result' = [fn |-> "percentageToPDFCoords",
                  value |-> percentageToPDFCoords(call.rect, call.dims)]
    /\ UNCHANGED <<storeVars, editorVars, modalVars, toast, saved, call>>

\* pixelsToPercentage of the call's rect, or of the rect percentageToPixels
\* returned
CallPixelsToPercentage ==
    /\ \/ call.fn = "pixelsToPercentage" /\ result = NoResult
       \/ call.fn = "percentageToPixels" /\ result.fn = "percentageToPixels"
    /\ result' = [fn |-> "pixelsToPercentage",
                  value |-> pixelsToPercentage(
                      IF result = NoResult THEN call.rect ELSE result.value,
                      call.dims)]
    /\ UNCHANGED <<storeVars, editorVars, modalVars, toast, saved, call>>

\* percentageToPixels of the call's rect, or of the rect pixelsToPercentage
\* returned
CallPercentageToPixels ==
    /\ \/ call.fn = "percentageToPixels" /\ result = NoResult
       \/ call.fn = "pixelsToPercentage" /\ result.fn = "pixelsToPercentage"
    /\ result' = [fn |-> "percentageToPixels",
                  value |-> percentageToPixels(
                      IF result = NoResult THEN call.rect ELSE result.value,
                      call.dims)]
    /\ UNCHANGED <<storeVars, editorVars, modalVars, toast, saved, call>>

InitCoordinates ==
    /\ InitProgram
    /\ call \in CoordinateCalls
    /\ result = NoResult

NextCoordinates ==
    \/ CallNormalizeRect
    \/ CallPercentageToPDFCoords
    \/ CallPixelsToPercentage
    \/ CallPercentageToPixels

SpecCoordinates == InitCoordinates /\ [][NextCoordinates]_vars

(***************************************************************************)
(* Generation on its own: one run of the overlay loop on a template, a     *)
(* data record and a document.                                             *)
(***************************************************************************)
\* the page sizes of the document, in points (page.getSize())
DocPages == <<[width |-> 600, height |-> 800], [width |-> 612, height |-> 792]>>

\* field keys: a text key, a checkbox key, and a key every object inherits
GenKeys == {<<"name">>, <<"c">>, <<"constructor">>}

GenRects ==
    {[x |-> Rat(1, 10), y |-> Rat(1, 5), w |-> Rat(3, 10), h |-> Rat(1, 20)],
     [x |-> RZero, y |-> Rat(1, 2), w |-> Rat(1, 2), h |-> Rat(1, 2)]}

\* the fields of a template; page 3 is not in the document
GenFields ==
    [id : {1}, key : GenKeys, type : {"text", "checkbox", "date"},
     page_number : {1, 2, 3},
     fontSize : {"undefined", "small", "medium", "large"},
     rect : GenRects]

\* a few fields to make templates of two fields from
GenPairFields ==
    {f \in GenFields :
        /\ f.key \in {<<"name">>, <<"c">>}
        /\ f.type \in {"text", "checkbox"}
        /\ f.page_number = 1
        /\ f.fontSize \in {"undefined", "large"}
        /\ f.rect.x = RZero}

\* fields of a template made for another document: page 0 and page 3 are
\* not pages of this one
GenStrayFields ==
    [id : {2}, key : {<<"name">>}, type : {"text"}, page_number : {0, 3},
     fontSize : {"undefined"},
     rect : {[x |-> Rat(1, 10), y |-> Rat(1, 5), w |-> Rat(3, 10), h |-> Rat(1, 20)]}]

GenTemplates ==
    {<<f>> : f \in GenFields} \cup {<<f, g>> : f, g \in GenPairFields}
      \cup {<<o, g>> : o \in GenStrayFields, g \in GenPairFields}
      \cup {<<g, o, h>> : o \in GenStrayFields, g, h \in GenPairFields}

\* the values JSON text can give a key
GenValues ==
    {VNull, VStr(<<>>), VStr(<<"A", "d", "a">>), VStr(<<"t", "r", "u", "e">>),
     VStr(<<"T", "R", "U", "E">>), VStr(<<"T", "r", "u", "e">>),
     VStr(<<"y", "e", "s">>),
     VStr(<<"1">>), VBool(TRUE), VBool(FALSE), VNum(1), VNum(0),
     VArr(<<>>), VArr(<<VBool(TRUE)>>), VArr(<<VStr(<<"T", "R", "U", "E">>)>>),
     VArr(<<VNull, VStr(<<"y", "e", "s">>)>>)}

\* the parsed data records: the empty object, and objects giving a value to
\* the text key and to the checkbox key
GenData ==
    {<<>>} \cup {[k \in {<<"name">>, <<"c">>} |-> v] : v \in GenValues}
         \cup {[k \in {<<"name">>} |-> v] : v \in {VStr(<<"A", "d", "a">>)}}

GenerateCalls ==
    [fn : {"generate"}, fields : GenTemplates, data : GenData,
     pages : {DocPages}]

CallGenerate ==
    /\ call.fn = "generate"
    /\ result = NoResult
    /\ result' = [fn |-> "generate",
                  value |-> OverlayData(call.fields, call.data, call.pages)]
    /\ UNCHANGED <<storeVars, editorVars, modalVars, toast, saved, call>>

InitGenerate ==
    /\ InitProgram
    /\ call \in GenerateCalls
    /\ result = NoResult

NextGenerate == CallGenerate

SpecGenerate == InitGenerate /\ [][NextGenerate]_vars

(***************************************************************************)
(* Drags of one field, one after the other: each handleMouseMove works on  *)
(* the pixel rect the field had at pointer-down, which is the rect the     *)
(* drag before it wrote.                                                   *)
(***************************************************************************)
\* the page the field lies on
DragDims == PageSize(1)

\* the pixel rects of three drawn fields: a narrow one near the top left
\* corner, a narrow one near the bottom right corner, one in the middle
DragStartRects ==
    {normalizeRect(5, 10, 15, 40),
     normalizeRect(395, 2980, 385, 2950),
     normalizeRect(100, 100, 200, 200)}

DragModes == {"move", "resize-se", "resize-sw", "resize-ne", "resize-nw"}

\* e.clientX - dragStart.x and e.clientY - dragStart.y at the last move
DragDeltas == {<<0, 0>>, <<7, -3>>, <<-500, -500>>, <<500, 500>>, <<-500, 500>>}

\* the pixel rect of the field after the move: the percent rect written by
\* updateField, rendered again
DraggedPixelRect(mode, initialRect, delta) ==
    percentageToPixels(
        pixelsToPercentage(
            DragPixelRect(mode, initialRect, delta[1], delta[2], DragDims),
            DragDims),
        DragDims)

CallDrag(mode, delta) ==
    /\ call.fn = "drag"
    /\ call.n < MaxDrags
    /\ call' = [fn |-> "drag", n |-> call.n + 1, mode |-> mode,
                initialRect |-> result.rect, delta |-> delta]
    /\ result' = [fn |-> "drag",
                  rect |-> DraggedPixelRect(mode, result.rect, delta)]
    /\ UNCHANGED <<storeVars, editorVars, modalVars, toast, saved>>

InitDrag ==
    /\ InitProgram
    /\ \E r \in DragStartRects :
          /\ call = [fn |-> "drag", n |-> 0, mode |-> "none",
                     initialRect |-> r, delta |-> <<0, 0>>]
          /\ result = [fn |-> "drag", rect |-> r]

NextDrag == \E mode \in DragModes, delta \in DragDeltas : CallDrag(mode, delta)

SpecDrag == InitDrag /\ [][NextDrag]_vars

(***************************************************************************)
(* Fields drawn and deleted, one after the other, on the registry alone:   *)
(* FieldOverlay.handleMouseUp's addField and the sidebar's removeField.    *)
(***************************************************************************)
\* the dimensions of every page are known
KeyDims == [p \in Pages |-> PageSize(p)]

\* the drawing gestures that end: two on each page, large enough
KeyGestures ==
    {setDrawingState(initialDrawingState,
         [isDrawing |-> TRUE, startX |-> start[1], startY |-> start[2],
          currentX |-> 150, currentY |-> 250, pageNumber |-> p]) :
        p \in Pages, start \in {<<5, 10>>, <<15, 40>>}}

\* handleMouseUp of a drawing gesture: addField of the new field
CallDrawField(ds) ==
    /\ call.fn = "keys"
    /\ call.n < MaxKeyOps
    /\ CreatesField(ds, KeyDims, ds.pageNumber)
    /\ call' = [fn |-> "keys", n |-> call.n + 1, op |-> "draw"]
    /\ result' = [fn |-> "keys",
                  fields |-> addField(result.fields,
                                 NewField(result.fields, ds, KeyDims,
                                          ds.pageNumber, result.nextId)),
                  nextId |-> result.nextId + 1]
    /\ UNCHANGED <<storeVars, editorVars, modalVars, toast, saved>>

\* handleDelete of a field of the list: removeField
CallRemoveField(id) ==
    /\ call.fn = "keys"
    /\ call.n < MaxKeyOps
    /\ id \in FieldIds(result.fields)
    /\ call' = [fn |-> "keys", n |-> call.n + 1, op |-> "delete"]
    /\ result' = [result EXCEPT
                     !.fields = removeField(result.fields, NoId, id).fields]
    /\ UNCHANGED <<storeVars, editorVars, modalVars, toast, saved>>

InitKeys ==
    /\ InitProgram
    /\ call = [fn |-> "keys", n |-> 0, op |-> "none"]
    /\ result = [fn |-> "keys", fields |-> <<>>, nextId |-> 1]

NextKeys ==
    \/ \E ds \in KeyGestures : CallDrawField(ds)
    \/ \E id \in 1..MaxKeyOps : CallRemoveField(id)

SpecKeys == InitKeys /\ [][NextKeys]_vars

(***************************************************************************)
(* The store's document: setPdfFile and resetState, called one after the   *)
(* other on a store whose other fields the setters have filled.  The       *)
(* browser numbers the object URLs it creates and remembers the revoked.    *)
(***************************************************************************)
\* the File objects the uploader passes, and null
PdfFiles == {[t |-> "file", name |-> <<"a">>], [t |-> "file", name |-> <<"b">>]}

\* the store as created by create<TemplateState>
InitialStore ==
    [fields |-> <<>>,
     selectedFieldId |-> NoId,
     drawingState |-> initialDrawingState,
     pageDimensions |-> <<>>,
     pdfFile |-> VNull,
     pdfUrl |-> NoUrl,
     pageCount |-> 0,
     templateName |-> <<>>]

\* no object URL was created
InitialBrowser == [created |-> 0, revoked |-> {}]

\* a setPdfFile that drops the old URL without revoking it
setPdfFileWithoutRevoke(store, browser, file) ==
    [store |-> [store EXCEPT
                  !.pdfFile = file,
                  !.pdfUrl = IF file # VNull THEN browser.created + 1 ELSE NoUrl],
     browser |-> [browser EXCEPT
                    !.created = IF file # VNull THEN @ + 1 ELSE @]]

\* setPdfFile(file): URL.revokeObjectURL(oldUrl), then
\* set({ pdfFile: file, pdfUrl: file ? URL.createObjectURL(file) : null })
setPdfFile(store, browser, file) ==
    [store |-> [store EXCEPT
                  !.pdfFile = file,
                  !.pdfUrl = IF file # VNull THEN browser.created + 1 ELSE NoUrl],
     browser |-> [created |-> IF file # VNull THEN browser.created + 1
                              ELSE browser.created,
                  revoked |-> browser.revoked \cup ({store.pdfUrl} \ {NoUrl})]]

\* resetState()
resetState(store, browser) ==
    [store |-> InitialStore,
     browser |-> [browser EXCEPT !.revoked = @ \cup ({store.pdfUrl} \ {NoUrl})]]

\* the other setters of the store, as the editor calls them
StoreSetters ==
    {"setFields", "setSelectedFieldId", "setDrawingState", "setPageDimensions",
     "setPageCount", "setTemplateName"}

StoreSet(store, setter) ==
    CASE setter = "setFields" ->
            [store EXCEPT !.fields = setFields(LayoutFields)]
      [] setter = "setSelectedFieldId" ->
            [store EXCEPT !.selectedFieldId = setSelectedFieldId(101)]
      [] setter = "setDrawingState" ->
            [store EXCEPT !.drawingState =
                setDrawingState(@, [isDrawing |-> TRUE, startX |-> 5, startY |-> 10])]
      [] setter = "setPageDimensions" ->
            [store EXCEPT !.pageDimensions = setPageDimensions(@, 1, PageSize(1))]
      [] setter = "setPageCount" ->
            [store EXCEPT !.pageCount = Cardinality(Pages)]
      [] OTHER ->
            [store EXCEPT !.templateName = UploadName]

\* one call on the store: call.before is the store it was made on
StoreCalled(op, after) ==
    /\ call.fn = "store"
    /\ call.n < MaxStoreOps
    /\ call' = [fn |-> "store", n |-> call.n + 1, op |-> op,
                before |-> result.store]
    /\ result' = [fn |-> "store", store |-> after.store,
                  browser |-> after.browser]
    /\ UNCHANGED <<storeVars, editorVars, modalVars, toast, saved>>

CallSetPdfFile(file) ==
    StoreCalled("setPdfFile", setPdfFile(result.store, result.browser, file))

CallResetState ==
    StoreCalled("resetState", resetState(result.store, result.browser))

CallStoreSetter(setter) ==
    StoreCalled(setter, [store |-> StoreSet(result.store, setter),
                         browser |-> result.browser])

InitStore ==
    /\ InitProgram
    /\ call = [fn |-> "store", n |-> 0, op |-> "none", before |-> InitialStore]
    /\ result = [fn |-> "store", store |-> InitialStore,
                 browser |-> InitialBrowser]

NextStore ==
    \/ \E file \in PdfFiles \cup {VNull} : CallSetPdfFile(file)
    \/ CallResetState
    \/ \E setter \in StoreSetters : CallStoreSetter(setter)

SpecStore == InitStore /\ [][NextStore]_vars

(***************************************************************************)
(* Specifications.  SpecPointer (above) is the pointer-driven editor.      *)
(* SpecRegistry adds the sidebar's select and delete, the registry's       *)
(* removeField and template import; SpecRename adds renaming on the canvas *)
(* and in the sidebar.  Spec is the whole editor.                          *)
(***************************************************************************)
NextRegistryOps ==
    \/ \E id \in IdUniverse : SidebarSelect(id)
    \/ \E id \in IdUniverse : HandleDelete(id)
    \/ \E id \in IdUniverse : RemoveAbsent(id)
    \/ \E data \in PickableFiles(saved) : Import(data)

NextRenameOps ==
    \/ \E id \in DOMAIN rectState, pt \in InsidePts : FieldDoubleClick(id, pt)
    \/ \E text \in TypedKeys : InlineType(text)
    \/ InlineEnter
    \/ InlineEscape
    \/ Blur
    \/ \E id \in IdUniverse : SidebarStartEdit(id)
    \/ \E text \in TypedKeys : SidebarType(text)
    \/ SidebarEnter
    \/ SidebarEscape
    \/ SidebarCancelClick

NextRegistry == NextPointer \/ NextRegistryOps

\* drawing, selecting and removing fields, without template files
NextRemoval ==
    \/ NextPointer
    \/ \E id \in IdUniverse : SidebarSelect(id)
    \/ \E id \in IdUniverse : HandleDelete(id)
    \/ \E id \in IdUniverse : RemoveAbsent(id)

SpecRemoval == Init /\ [][NextRemoval]_vars

\* the properties panel: a layout, the selection, numeric edits of the rect
\* and the bulk action
NextPanelOps ==
    \/ \E property \in RectProperties, value \in RectTexts :
          HandleRectChange(property, value)
    \/ \E property \in ApplyOptions : HandleApplyToAll(property)

NextPanel ==
    \/ Upload
    \/ \E p \in Pages : PageLoadSuccess(p)
    \/ \E data \in LayoutFiles : Import(data)
    \/ \E id \in FieldIds(fields) : SidebarSelect(id)
    \/ NextPanelOps

SpecPanel == Init /\ [][NextPanel]_vars

\* the number inputs alone on an imported layout
NextRectEdit ==
    \/ Upload
    \/ \E data \in LayoutFiles : Import(data)
    \/ \E id \in IdUniverse \cup FieldIds(fields) : SidebarSelect(id)
    \/ \E property \in RectProperties, value \in RectTexts :
          HandleRectChange(property, value)

SpecRectEdit == Init /\ [][NextRectEdit]_vars

\* the bulk action alone on an imported layout
NextApply ==
    \/ Upload
    \/ \E p \in Pages : PageLoadSuccess(p)
    \/ \E data \in LayoutFiles : Import(data)
    \/ \E id \in IdUniverse \cup FieldIds(fields) : SidebarSelect(id)
    \/ \E id \in IdUniverse \cup FieldIds(fields) : HandleDelete(id)
    \/ \E property \in ApplyOptions : HandleApplyToAll(property)

SpecApply == Init /\ [][NextApply]_vars

\* template files: a document, import, export, selection and deletion
NextTemplateOps ==
    \/ HandleExport
    \/ HandleSaveTemplate

NextTemplate ==
    \/ Upload
    \/ \E p \in Pages : PageLoadSuccess(p)
    \/ NextRegistryOps
    \/ NextTemplateOps

SpecTemplate == Init /\ [][NextTemplate]_vars
SpecRegistry == Init /\ [][NextRegistry]_vars

NextRename == NextPointer \/ NextRenameOps
SpecRename == Init /\ [][NextRename]_vars

Next ==
    NextPointer \/ NextRegistryOps \/ NextRenameOps \/ NextModalOps
      \/ NextTemplateOps \/ NextPanelOps
Spec == Init /\ [][Next]_vars

(***************************************************************************)
(* Properties.                                                             *)
(***************************************************************************)

\* the rect lies inside its page
RectInsidePage(rect) ==
    /\ RLe(RZero, rect.x)
    /\ RLe(RZero, rect.y)
    /\ RLe(RAdd(rect.x, rect.w), ROne)
    /\ RLe(RAdd(rect.y, rect.h), ROne)

\* C1: after any sequence of draw gestures and move and resize drags, every
\* field's normalized rect satisfies 0 <= x, 0 <= y, x+w <= 1 and y+h <= 1.
RectsInsidePage == \A i \in DOMAIN fields : RectInsidePage(fields[i].rect)

\* C2: selectedFieldId is null or the id of a field present in fields.
SelectionIsPresent ==
    selectedFieldId = NoId \/ selectedFieldId \in FieldIds(fields)

\* the rect of the draw gesture that is active
GestureRect ==
    DrawnRect(drawingState, pageDimensions[drawingState.pageNumber])

\* C5: the pointer-up of a draw gesture whose normalized rect has w < 0.01
\* or h < 0.01 leaves the field list unchanged; the pointer-up of a gesture
\* whose rect has w >= 0.01 and h >= 0.01 appends exactly one field.
DrawGestureCreates ==
    [][PointerUp /\ drawingState.isDrawing
         => IF \/ RLt(GestureRect.w, Rat(1, 100))
               \/ RLt(GestureRect.h, Rat(1, 100))
            THEN fields' = fields
            ELSE /\ Len(fields') = Len(fields) + 1
                 /\ SubSeq(fields', 1, Len(fields)) = fields
                 /\ fields'[Len(fields')].rect = GestureRect]_vars

\* a draw gesture of a rect of exactly the minimum height has created a
\* field
DrawnFieldOfMinimumSize ==
    /\ ~buttonDown
    /\ ~drawingState.isDrawing
    /\ \E i \in DOMAIN fields :
          /\ fields[i].id = nextId - 1
          /\ fields[i].id = selectedFieldId
          /\ fields[i].rect.h = Rat(1, 100)

\* C6: a resize drag on a field that lies inside its page never leaves the
\* field's normalized width or height below 0.01.
ResizeKeepsMinimumSize ==
    [][\A i \in DOMAIN fields :
          LET id == fields[i].id
          IN  /\ id \in DraggingIds(rectState)
              /\ rectState[id].dragMode # "move"
              /\ RectInsidePage(pixelsToPercentage(rectState[id].initialRect,
                                    pageDimensions[fields[i].page_number]))
              /\ i \in DOMAIN fields'
              => /\ RLe(Rat(1, 100), fields'[i].rect.w)
                 /\ RLe(Rat(1, 100), fields'[i].rect.h)]_vars

\* C7: removeField(id) clears the selection when id is the selected id and
\* leaves the selection unchanged for every other id, absent ids included.
RemoveFieldSelection ==
    [][\A id \in IdUniverse :
          HandleDelete(id) \/ RemoveAbsent(id)
          => selectedFieldId' = IF id = selectedFieldId THEN NoId
                                ELSE selectedFieldId]_vars

\* every gesture drew a field, and the field selected by the last gesture
\* was removed
SelectedFieldRemoved ==
    /\ gestures = MaxGestures
    /\ nextId = MaxGestures + 1
    /\ selectedFieldId = NoId

\* the fields in rename mode: on the canvas, and in the sidebar
InlineEditingIds == {id \in DOMAIN rectState : rectState[id].isEditing}
SidebarEditingIds == {editingFieldId} \ {NoId}
RenamingIds == InlineEditingIds \cup SidebarEditingIds

\* C8: at most one interaction state is active: no drawing gesture while a
\* field is dragged or renamed, no drag while a field is renamed.
OneInteractionState ==
    /\ drawingState.isDrawing
       => DraggingIds(rectState) = {} /\ RenamingIds = {}
    /\ DraggingIds(rectState) # {} => RenamingIds = {}

\* C9: at most one field is in rename mode, the canvas and the sidebar
\* counted together, and a field in rename mode is not being dragged.
OneRenameAndNoDrag ==
    /\ Cardinality(RenamingIds) <= 1
    /\ RenamingIds \cap DraggingIds(rectState) = {}

\* C10 as stated: the pointer leaving the surface resets an active drawing
\* gesture and an active drag alike.
LeaveResetsEveryGesture ==
    [][PointerLeave
         => ~drawingState'.isDrawing /\ DraggingIds(rectState') = {}]_vars

\* C10: the pointer leaving the surface resets an active drawing gesture, so
\* that no field is created while the pointer is outside; an active drag is
\* not reset by the leave and ends only at pointer-up.
LeaveResetsDrawingOnly ==
    [][/\ PointerLeave
          => /\ ~drawingState'.isDrawing
             /\ DraggingIds(rectState') = DraggingIds(rectState)
       /\ over = 0 /\ over' = 0 => Len(fields') = Len(fields)
       /\ DraggingIds(rectState) # {} /\ DraggingIds(rectState') = {}
          => PointerUp]_vars

\* the pointer left the surface during a drag, and the drag goes on
DragGoesOnOutside ==
    over = 0 /\ buttonDown /\ DraggingIds(rectState) # {}

\* C18: percentageToPDFCoords, as stated: x0 = x*W, x1 = (x+w)*W, y0 = y*H
\* and y1 = (y+w)*H.
PDFCoordsLowerEdgeFromWidth ==
    result.fn = "percentageToPDFCoords"
    => LET W == RInt(call.dims.width)
           H == RInt(call.dims.height)
       IN  /\ result.value.x0 = RMul(call.rect.x, W)
           /\ result.value.x1 = RMul(RAdd(call.rect.x, call.rect.w), W)
           /\ result.value.y0 = RMul(call.rect.y, H)
           /\ result.value.y1 = RMul(RAdd(call.rect.y, call.rect.w), H)

\* C18: percentageToPDFCoords maps a normalized rect and the document page
\* dimensions W, H to x0 = x*W, x1 = (x+w)*W, y0 = y*H and y1 = (y+h)*H.
PDFCoordsOfRect ==
    result.fn = "percentageToPDFCoords"
    => LET W == RInt(call.dims.width)
           H == RInt(call.dims.height)
       IN  /\ result.value.x0 = RMul(call.rect.x, W)
           /\ result.value.x1 = RMul(RAdd(call.rect.x, call.rect.w), W)
           /\ result.value.y0 = RMul(call.rect.y, H)
           /\ result.value.y1 = RMul(RAdd(call.rect.y, call.rect.h), H)

\* percentageToPDFCoords returned for a rect whose width and height differ
PDFCoordsOfOblongRect ==
    /\ result.fn = "percentageToPDFCoords"
    /\ call.rect.w # call.rect.h
    /\ call.rect.y # RZero

\* the smaller and the larger of two integers
MinOf(a, b) == IF a <= b THEN a ELSE b
MaxOf(a, b) == IF a <= b THEN b ELSE a

\* C19: normalizeRect returns w >= 0 and h >= 0 with x, y the minima and
\* x+w, y+h the maxima of the start and end coordinates, and the same rect
\* when start and end are swapped.
NormalizeRectIsBoundingBox ==
    result.fn = "normalizeRect"
    => LET r == result.value
       IN  /\ RLe(RZero, r.w) /\ RLe(RZero, r.h)
           /\ r.x = RInt(MinOf(call.startX, call.endX))
           /\ r.y = RInt(MinOf(call.startY, call.endY))
           /\ RAdd(r.x, r.w) = RInt(MaxOf(call.startX, call.endX))
           /\ RAdd(r.y, r.h) = RInt(MaxOf(call.startY, call.endY))
           /\ r = normalizeRect(call.endX, call.endY,
                                call.startX, call.startY)

\* normalizeRect returned for a drag up and to the left
NormalizedBackwardDrag ==
    /\ result.fn = "normalizeRect"
    /\ call.endX < call.startX
    /\ call.endY < call.startY

\* C20: percentageToPixels of pixelsToPercentage of a pixel rect is that
\* rect, and pixelsToPercentage of percentageToPixels of a normalized rect is
\* that rect, for positive page dimensions.
CoordinateRoundTrip ==
    /\ call.fn = "pixelsToPercentage" /\ result.fn = "percentageToPixels"
       => result.value = call.rect
    /\ call.fn = "percentageToPixels" /\ result.fn = "pixelsToPercentage"
       => result.value = call.rect

\* a pixel rect went to percentages and back on a page that is not square
PixelRectWentRoundTrip ==
    /\ call.fn = "pixelsToPercentage"
    /\ result.fn = "percentageToPixels"
    /\ call.rect.h # RZero
    /\ call.dims.width # call.dims.height

\* data[field.key] is undefined, null or the empty string
IsSkippedValueOfClaim(f) ==
    \/ f.key \notin DOMAIN call.data /\ f.key \notin ObjectPrototypeKeys
    \/ f.key \in DOMAIN call.data /\ call.data[f.key] = VNull
    \/ f.key \in DOMAIN call.data /\ call.data[f.key] = VStr(<<>>)

\* a text field with a non-empty string on a page of the document
TextWithString(f) ==
    /\ f.type = "text"
    /\ f.key \in DOMAIN call.data
    /\ call.data[f.key].t = "string"
    /\ call.data[f.key].s # <<>>
    /\ f.page_number \in DOMAIN call.pages

TrueIgnoringCase ==
    {w \in [1..4 -> {"t", "T", "r", "R", "u", "U", "e", "E"}] :
        /\ w[1] \in {"t", "T"} /\ w[2] \in {"r", "R"}
        /\ w[3] \in {"u", "U"} /\ w[4] \in {"e", "E"}}

\* C12: a checkbox field gets a mark instruction if and only if its data
\* value is boolean true or a string equal to "true" ignoring case.
CheckboxStrictness ==
    /\ result.fn = "generate"
    /\ Len(call.fields) = 1
    /\ call.fields[1].type = "checkbox"
    /\ call.fields[1].page_number \in DOMAIN call.pages
    => LET value == Lookup(call.data, call.fields[1].key)
       IN  (Len(result.value) = 1 /\ result.value[1].kind = "mark")
           <=> \/ value = VBool(TRUE)
               \/ value.t = "string" /\ value.s \in TrueIgnoringCase

\* C13: every instruction of a field is at x = rect.x*W + 2 and
\* y = H - rect.y*H - fontSizePt - 2, with fontSizePt 7, 9 or 12 for small,
\* medium or large and 9 without fontSize; a text or date instruction has
\* maxWidth = rect.w*W - 4.  The field {name, text, page 1, medium,
\* {0.1, 0.2, 0.3, 0.05}} with {name: "Ada"} on a 600 x 800 page gives one
\* text instruction with x = 62, y = 629, maxWidth = 176.
InstructionPosition ==
    /\ result.fn = "generate" /\ Len(call.fields) = 1
       => \A i \in DOMAIN result.value :
             LET f == call.fields[1]
                 ins == result.value[i]
                 W == RInt(call.pages[f.page_number].width)
                 H == RInt(call.pages[f.page_number].height)
                 fontSizePt == CASE f.fontSize = "small" -> 7
                                 [] f.fontSize = "medium" -> 9
                                 [] f.fontSize = "large" -> 12
                                 [] f.fontSize = "undefined" -> 9
             IN  /\ ins.x = RAdd(RMul(f.rect.x, W), RInt(2))
                 /\ ins.y = RSub(RSub(RSub(H, RMul(f.rect.y, H)),
                                      RInt(fontSizePt)), RInt(2))
                 /\ f.type \in {"text", "date"}
                    => ins.maxWidth = RSub(RMul(f.rect.w, W), RInt(4))
    /\ /\ result.fn = "generate"
       /\ call.fields = <<[ImportedField EXCEPT !.id = 1]>>
       /\ call.data = [k \in {<<"name">>} |-> VStr(<<"A", "d", "a">>)]
       => /\ Len(result.value) = 1
          /\ result.value[1].kind = "text"
          /\ result.value[1].x = RInt(62)
          /\ result.value[1].y = RInt(629)
          /\ result.value[1].maxWidth = RInt(176)

\* the instruction of the field "name" for the data {name: "Ada"}
AdaInstruction ==
    /\ result.fn = "generate"
    /\ call.fields = <<[ImportedField EXCEPT !.id = 1]>>
    /\ call.data = [k \in {<<"name">>} |-> VStr(<<"A", "d", "a">>)]
    /\ Len(result.value) = 1

TemplateSchema == {"name", "created_at", "version", "page_count", "fields"}

\* C17: with at least one field, the object that Save Template or the sidebar
\* Export writes carries name, created_at, version, page_count and fields,
\* and importing it gives exactly the exported fields, in order and with the
\* same id, key, type, page_number, fontSize and rect, and the exported name.
ExportImportRoundTrip ==
    [][((HandleExport /\ fields # <<>>) \/ HandleSaveTemplate)
         => /\ TemplateSchema \subseteq DOMAIN saved'
            /\ LET out == handleImport(saved', <<>>, <<>>)
               IN  /\ out.toast.kind = "success"
                   /\ out.fields = fields
                   /\ out.templateName = saved'.name.s]_vars

\* a step of a generation run: handlePreview starts, returns or throws
GenerationStep ==
    TimerFires \/ SomePreviewDone \/ \E r \in inflight : PreviewFails(r)

\* a generation step that fails: the text is no JSON, or the renderer throws
GenerationFailure ==
    \/ TimerFires /\ timer.json.kind = "invalid"
    \/ \E r \in inflight : PreviewFails(r)

\* C14: a generation run, whether it succeeds or fails, leaves fields,
\* selectedFieldId, the drawing state, the page dimensions and the template
\* name as they were; a failed run also leaves the data text and the current
\* preview alone, so there is nothing to clean up, and a run that succeeds
\* publishes the document made from the data of its own request, whatever
\* failed before it.
GenerationLeavesRegistry ==
    [][GenerationStep
         => /\ UNCHANGED <<fields, selectedFieldId, drawingState,
                           pageDimensions, templateName>>
            /\ GenerationFailure
                  => UNCHANGED <<jsonInput, previewUrl, blobs, revoked>>
            /\ \A r \in inflight :
                  PreviewDone(r) => blobs'[previewUrl'] = r.version]_vars

\* a render failed, and a later run published the preview of the current
\* data with the template's fields in place
RetryAfterFailurePublished ==
    /\ renderFailed
    /\ fields # <<>>
    /\ previewUrl # NoUrl
    /\ blobs[previewUrl] = jsonInput.version
    /\ inflight = {}

\* C16: a request whose data text is not parsable JSON shows a failure to
\* the user, leaves the current preview in place and ends with the
\* generating flag cleared; here the request of the debounced automatic
\* preview.
InvalidJsonIsSignalled ==
    [][(TimerFires /\ timer.json.kind = "invalid")
         => /\ toast'.kind = "error"
            /\ previewUrl' = previewUrl
            /\ isGenerating' = FALSE]_vars

\* C21: every field keeps w >= 0.01 and h >= 0.01 after every numeric edit
\* of x, y, w or h in the sidebar and after the bulk apply-to-all action.
PanelKeepsMinimumSize ==
    \A i \in DOMAIN fields : isValidFieldSize(fields[i].rect)

\* what the bulk action must leave of field f, given the selected field
ApplyExpected(f, selectedField, property) ==
    IF f.page_number = selectedField.page_number /\ f.id # selectedField.id
    THEN [f EXCEPT !.rect =
            [x |-> f.rect.x,
             y |-> f.rect.y,
             w |-> IF property \in {"w", "both"} THEN selectedField.rect.w ELSE f.rect.w,
             h |-> IF property \in {"h", "both"} THEN selectedField.rect.h ELSE f.rect.h]]
    ELSE f

\* C30: apply-to-all with option w, h or both copies exactly the chosen
\* dimensions of the selected field's rect onto every other field of its
\* page, keeps their x and y without re-clamping, and leaves the selected
\* field and the fields of other pages as they were.
ApplyToAllCopiesDimensions ==
    [][\A property \in ApplyOptions :
          HandleApplyToAll(property)
            => IF selectedFieldId \in FieldIds(fields)
               THEN /\ DOMAIN fields' = DOMAIN fields
                    /\ \A i \in DOMAIN fields :
                          fields'[i] = ApplyExpected(fields[i],
                                          FieldOf(fields, selectedFieldId), property)
               ELSE fields' = fields]_vars

\* a recipient of the selected field's width now reaches beyond its page,
\* next to an untouched field of another page
RecipientBeyondPage ==
    /\ selectedFieldId \in FieldIds(fields)
    /\ \E i \in DOMAIN fields :
          /\ fields[i].id # selectedFieldId
          /\ fields[i].rect.w = FieldOf(fields, selectedFieldId).rect.w
          /\ RLt(ROne, RAdd(fields[i].rect.x, fields[i].rect.w))
    /\ \E i \in DOMAIN fields : fields[i] = LayoutFields[3]

\* C22 as stated: every change of the data text cancels the pending
\* generation and schedules a new one for the new text, and a generation
\* that starts uses the text of the last edit.
EveryEditSchedules ==
    [][/\ jsonInput' # jsonInput
          => timer'.pending /\ timer'.json = jsonInput'
       /\ TimerFires
          => /\ timer.json = jsonInput
             /\ \A r \in inflight' \ inflight : r.version = jsonInput.version]_vars

\* C22: every change of the data text cancels the pending generation; it
\* schedules a new one for the new text unless that text is empty, so at
\* most one generation is scheduled, and a generation that starts uses the
\* text of the last edit.
EditReschedulesUnlessEmpty ==
    [][/\ jsonInput' # jsonInput
          => IF jsonInput'.kind = "empty"
             THEN ~timer'.pending
             ELSE timer'.pending /\ timer'.json = jsonInput'
       /\ TimerFires
          => /\ timer.json = jsonInput
             /\ \A r \in inflight' \ inflight : r.version = jsonInput.version]_vars

\* two edits in a row, and the only generation that started uses the text
\* of the second
OnlyLastEditGenerated ==
    /\ edits = 2
    /\ started = 1
    /\ jsonInput.version = 3
    /\ inflight # {}
    /\ \A r \in inflight : r.version = 3

\* toNormalized(normalizeDrag(start, current)) of the active gesture: the
\* bounding box of the two points as fractions of the page
NormalizedDrag ==
    LET ds == drawingState
        dims == pageDimensions[ds.pageNumber]
    IN  [x |-> Rat(MinOf(ds.startX, ds.currentX), dims.width),
         y |-> Rat(MinOf(ds.startY, ds.currentY), dims.height),
         w |-> Rat(MaxOf(ds.startX, ds.currentX) - MinOf(ds.startX, ds.currentX),
                   dims.width),
         h |-> Rat(MaxOf(ds.startY, ds.currentY) - MinOf(ds.startY, ds.currentY),
                   dims.height)]

\* C23: the pointer-up that ends a drawing gesture on its own page resets
\* the drawing state; with a viable rect it appends exactly one field of
\* type text on the drawing page with the normalized rect of the drag and
\* selects it; otherwise the field list and the selection stay as they are.
DrawingPointerUp ==
    [][PointerUp /\ drawingState.isDrawing /\ over = drawingState.pageNumber
         => /\ drawingState' = initialDrawingState
            /\ IF /\ RLe(Rat(1, 100), NormalizedDrag.w)
                  /\ RLe(Rat(1, 100), NormalizedDrag.h)
               THEN /\ Len(fields') = Len(fields) + 1
                    /\ SubSeq(fields', 1, Len(fields)) = fields
                    /\ LET f == fields'[Len(fields')]
                       IN  /\ f.type = "text"
                           /\ f.page_number = drawingState.pageNumber
                           /\ f.rect = NormalizedDrag
                           /\ f.id \notin FieldIds(fields)
                           /\ selectedFieldId' = f.id
               ELSE /\ fields' = fields
                    /\ selectedFieldId' = selectedFieldId]_vars

\* a gesture between x = 5 and x = 15 on page 2 has created the selected
\* field
FieldDrawnOnSecondPage ==
    /\ ~buttonDown
    /\ drawingState = initialDrawingState
    /\ \E i \in DOMAIN fields :
          /\ fields[i].id = selectedFieldId
          /\ fields[i].page_number = 2
          /\ fields[i].type = "text"
          /\ fields[i].rect.x = Rat(5, 200)
          /\ fields[i].rect.w = Rat(10, 200)

\* C24: pointer-down on empty canvas of page P starts a drawing gesture
\* with start = current = the pointer position and pageNumber = P and clears
\* the selection; pointer-down over a field starts no drawing gesture and
\* does not clear the selection; pointer-move while drawing changes the
\* current position only.
DrawingStartsOnEmptyCanvas ==
    [][/\ \A p \in Pages, pt \in InsidePts :
             OverlayMouseDown(p, pt)
               => /\ drawingState' =
                       [isDrawing |-> TRUE, startX |-> pt[1], startY |-> pt[2],
                        currentX |-> pt[1], currentY |-> pt[2], pageNumber |-> p]
                  /\ selectedFieldId' = NoId
       /\ \A id \in DOMAIN rectState, pt \in InsidePts :
             FieldMouseDown(id, pt)
               => /\ drawingState' = drawingState
                  /\ ~drawingState'.isDrawing
                  /\ selectedFieldId # NoId => selectedFieldId' # NoId
       /\ \A pt \in InsidePts \cup OutsidePts :
             PointerMove(pt) /\ drawingState.isDrawing
               => /\ drawingState' = [drawingState EXCEPT !.currentX = pt[1],
                                                         !.currentY = pt[2]]
                  /\ fields' = fields
                  /\ selectedFieldId' = selectedFieldId]_vars

\* a second gesture is being drawn away from its start, next to a field,
\* with the selection cleared
DrawingNextToField ==
    /\ drawingState.isDrawing
    /\ drawingState.currentX # drawingState.startX
    /\ fields # <<>>
    /\ selectedFieldId = NoId

\* C25: a move drag keeps the w and h the field had at pointer-down and
\* leaves x within [0, pageWidth - w] and y within [0, pageHeight - h], for
\* every pointer delta.
MoveStaysInsidePage ==
    call.fn = "drag" /\ call.mode = "move"
      => /\ result.rect.w = call.initialRect.w
         /\ result.rect.h = call.initialRect.h
         /\ RLe(RZero, result.rect.x)
         /\ RLe(result.rect.x, RSub(RInt(DragDims.width), result.rect.w))
         /\ RLe(RZero, result.rect.y)
         /\ RLe(result.rect.y, RSub(RInt(DragDims.height), result.rect.h))

ResizeSeWithinBounds ==
    call.fn = "drag" /\ call.mode = "resize-se"
      => /\ RLe(RInt(MIN_SIZE), result.rect.w)
         /\ RLe(result.rect.w, RSub(RInt(DragDims.width), result.rect.x))
         /\ RLe(RInt(MIN_SIZE), result.rect.h)
         /\ RLe(result.rect.h, RSub(RInt(DragDims.height), result.rect.y))

\* C28: pointer-down on a field starts a drag exactly when the field is not
\* in rename mode; on a field in rename mode it changes neither the drag
\* mode nor the rect of the field; pointer-up ends every drag, and a pointer
\* move with the button released changes no field.
DragStartsOutsideRename ==
    [][/\ \A id \in DOMAIN rectState, pt \in InsidePts :
            FieldMouseDown(id, pt)
              => IF id \in RenamingIds
                 THEN /\ rectState'[id].dragMode = rectState[id].dragMode
                      /\ FieldOf(fields', id).rect = FieldOf(fields, id).rect
                 ELSE rectState'[id].dragMode # "none"
       /\ PointerUp => DraggingIds(rectState') = {}
       /\ (~buttonDown /\ \E pt \in InsidePts \cup OutsidePts : PointerMove(pt))
            => fields' = fields]_vars

\* no gesture and no rename is active
IdleState ==
    /\ ~drawingState.isDrawing
    /\ DraggingIds(rectState) = {}
    /\ RenamingIds = {}

\* the fields once text was confirmed as the key of field id: the trimmed
\* text if it is not empty, and nothing else changed
KeyConfirmed(fs, id, text) ==
    [i \in DOMAIN fs |->
        IF fs[i].id = id /\ trim(text) # <<>>
        THEN [fs[i] EXCEPT !.key = trim(text)]
        ELSE fs[i]]

\* C29: confirming a rename (Enter, or the input losing focus) writes the
\* trimmed text as the key of the field when it is not empty and changes no
\* field otherwise; cancelling (Escape, or the sidebar's cancel button)
\* changes no field, so the key is the one before the rename; nothing else of
\* the field and no other field changes; afterwards the editor is idle:
\* nothing is renamed, dragged or drawn; and while a rename input stays open
\* the key of its field does not change.
RenameEndsInIdle ==
    [][/\ (InlineEnter \/ (Blur /\ focus.kind = "inline"))
            => /\ fields' = KeyConfirmed(fields, focus.id,
                                         rectState[focus.id].editingKey)
               /\ IdleState'
       /\ (SidebarEnter \/ (Blur /\ focus.kind = "sidebar"))
            => /\ fields' = KeyConfirmed(fields, editingFieldId, sidebarKey)
               /\ IdleState'
       /\ (InlineEscape \/ SidebarEscape \/ SidebarCancelClick)
            => /\ fields' = fields
               /\ IdleState'
       /\ \A id \in (InlineEditingIds \cap InlineEditingIds')
                    \cup (SidebarEditingIds \cap SidebarEditingIds') :
            id \in FieldIds(fields) /\ id \in FieldIds(fields')
              => FieldOf(fields', id).key = FieldOf(fields, id).key]_vars

\* the field lies on a page of the document
OnDocumentPage(field, pages) ==
    field.page_number >= 1 /\ field.page_number <= Len(pages)

\* C31: a field whose page_number is outside the document's page range is
\* skipped: the instructions generated are those generated from the template
\* without such fields, in the order of the fields.
StrayFieldsSkipped ==
    result.fn = "generate"
      => result.value =
           OverlayData(SelectSeq(call.fields,
                                 LAMBDA f : OnDocumentPage(f, call.pages)),
                       call.data, call.pages)

\* a template of three fields, the middle one on a page the document does
\* not have, generated with a value for every field: two instructions, the
\* first and the last field's
StrayFieldBetweenDrawn ==
    /\ result.fn = "generate"
    /\ Len(call.fields) = 3
    /\ ~OnDocumentPage(call.fields[2], call.pages)
    /\ ~IsSkippedValue(Lookup(call.data, call.fields[2].key))
    /\ call.fields[1].type = "text" /\ call.fields[3].type = "text"
    /\ call.fields[1].fontSize # call.fields[3].fontSize
    /\ Len(result.value) = 2
    /\ result.value[1].size = fontSizeOfField(call.fields[1])
    /\ result.value[2].size = fontSizeOfField(call.fields[3])

\* what a template of one field whose data value is false or 0 must
\* generate: a text or date field one text instruction with the string form
\* of the value, a checkbox field with the value false nothing
FalsyValueDrawn(field, value, instructions) ==
    /\ ~IsSkippedValue(value)
    /\ field.type \in {"text", "date"}
         => /\ Len(instructions) = 1
            /\ instructions[1].kind = "text"
            /\ value = VBool(FALSE)
                 => instructions[1].text = <<"f", "a", "l", "s", "e">>
            /\ value = VNum(0) => instructions[1].text = <<"0">>
    /\ field.type = "checkbox" /\ value = VBool(FALSE)
         => instructions = <<>>

\* C36 as stated: every text or date field whose value is false or 0 yields
\* one text instruction, whatever its page.
FalsyValuesAlwaysDrawn ==
    result.fn = "generate" /\ Len(call.fields) = 1
      => LET value == Lookup(call.data, call.fields[1].key)
         IN  value \in {VBool(FALSE), VNum(0)}
               => FalsyValueDrawn(call.fields[1], value, result.value)

\* C36: the skip test is not falsiness: a text or date field on a page of
\* the document whose value is false or 0 is not skipped and yields exactly
\* one text instruction carrying "false" or "0"; a checkbox field whose
\* value is false passes the skip test and yields no instruction.
FalsyValuesDrawnOnPage ==
    result.fn = "generate" /\ Len(call.fields) = 1
      => LET value == Lookup(call.data, call.fields[1].key)
         IN  /\ value \in {VBool(FALSE), VNum(0)}
             /\ \/ OnDocumentPage(call.fields[1], call.pages)
                \/ call.fields[1].type = "checkbox"
             => FalsyValueDrawn(call.fields[1], value, result.value)

\* a date field on the second page with the value 0 was generated as "0"
ZeroDrawnAsText ==
    /\ result.fn = "generate"
    /\ Len(call.fields) = 1
    /\ call.fields[1].type = "date"
    /\ call.fields[1].page_number = 2
    /\ Lookup(call.data, call.fields[1].key) = VNum(0)
    /\ Len(result.value) = 1
    /\ result.value[1].text = <<"0">>

\* C32: a preview URL that is replaced is revoked in the same step; the URL
\* shown is never a revoked one; and at most one of the URLs generated so
\* far is not revoked, also when renders overlap.
SupersededPreviewsRevoked ==
    [][/\ (previewUrl # NoUrl /\ previewUrl' # previewUrl)
            => previewUrl \in revoked'
       /\ previewUrl' # NoUrl => previewUrl' \notin revoked'
       /\ Cardinality(DOMAIN blobs' \ revoked') <= 1]_vars

\* two renders overlapped and the first one completed last: its URL is
\* shown, the URL of the second was revoked
OverlappedPreviewRevoked ==
    /\ previewUrl = UrlOfRequest(1)
    /\ UrlOfRequest(2) \in DOMAIN blobs
    /\ UrlOfRequest(2) \in revoked
    /\ inflight = {}

\* C34: isGenerating is true exactly while at least one handlePreview call
\* has started and not yet finished.
GeneratingTracksInflight == isGenerating <=> inflight # {}

\* C33: the keys of the fields in the registry are pairwise distinct after
\* any sequence of draws and deletes.
DefaultKeysDistinct ==
    result.fn = "keys"
      => \A i, j \in DOMAIN result.fields :
            i # j => result.fields[i].key # result.fields[j].key

\* C35: while a field is dragged, every pointer move leaves its rect the one
\* computed from the rect captured at pointer-down and the pointer's offset
\* from the drag origin, whatever the moves before; and a move back to the
\* drag origin leaves the rect the field had at pointer-down, in every drag
\* mode.
DragDependsOnOffsetOnly ==
    [][\A pt \in InsidePts \cup OutsidePts :
          PointerMove(pt)
            => \A id \in DraggingIds(rectState) :
                  LET st == rectState[id]
                      f == FieldOf(fields', id)
                      dims == pageDimensions[f.page_number]
                  IN  /\ f.rect = DragRect(st, pt, dims)
                      /\ pt = st.dragStart
                           => f.rect = pixelsToPercentage(st.initialRect, dims)]_vars

\* C37: a numeric edit of x, y, w or h of the selected field in the sidebar
\* leaves a rect inside the page inside the page; an entry that is not a
\* number and an edit without a selected field change no field.
RectEditKeepsBounds ==
    [][\A property \in RectProperties, value \in RectTexts :
          HandleRectChange(property, value)
            => IF selectedFieldId \notin FieldIds(fields)
                    \/ parseFloat(value) = NaN
               THEN fields' = fields
               ELSE RectInsidePage(FieldOf(fields, selectedFieldId).rect)
                      => RectInsidePage(FieldOf(fields', selectedFieldId).rect)]_vars

\* the field at x = 0.8 was given the width 50: it was moved to x = 0.5
WidenedFieldMovedLeft ==
    \E i \in DOMAIN fields :
        /\ fields[i].id = 102
        /\ fields[i].rect.w = Rat(1, 2)
        /\ fields[i].rect.x = Rat(1, 2)

\* C38: every object URL created for a document that is not the current one
\* has been revoked; pdfUrl is null exactly when pdfFile is null; and
\* resetState leaves fields, selection, drawing state, page dimensions, page
\* count and template name at their initial values.
DocumentUrlLifecycle ==
    result.fn = "store"
      => /\ \A url \in 1..result.browser.created :
               url # result.store.pdfUrl => url \in result.browser.revoked
         /\ result.store.pdfUrl = NoUrl <=> result.store.pdfFile = VNull
         /\ call.op = "resetState"
              => /\ result.store.fields = <<>>
                 /\ result.store.selectedFieldId = NoId
                 /\ result.store.drawingState = initialDrawingState
                 /\ result.store.pageDimensions = <<>>
                 /\ result.store.pageCount = 0
                 /\ result.store.templateName = <<>>

\* resetState was called on a store holding fields and the second document
\* uploaded: both URLs are revoked
ResetAfterSecondDocument ==
    /\ result.fn = "store"
    /\ call.op = "resetState"
    /\ call.before.fields # <<>>
    /\ call.before.pdfUrl = 2
    /\ result.browser.revoked = {1, 2}
    /\ result.store.pdfUrl = NoUrl

\* C3: when preview generations overlap, the preview never goes back from
\* the result of a request to the result of a request started before it.
NewerPreviewNotReplaced ==
    [][previewUrl # NoUrl /\ previewUrl' # previewUrl
         => RequestOfUrl(previewUrl') > RequestOfUrl(previewUrl)]_vars

\* the data record is valid JSON, the modal shows a document and no render
\* has failed
RendersCanSucceed ==
    isOpen /\ pdfUrl # NoUrl /\ jsonInput.kind = "valid" /\ ~renderFailed

\* the preview shows the document made from the current data record
PreviewIsCurrent ==
    previewUrl # NoUrl /\ blobs[previewUrl] = jsonInput.version

\* C4: once the data record stops changing with valid JSON and every started
\* render completes, the preview eventually shows the document made from the
\* latest data and stays so.
PreviewCatchesUp == <>[]RendersCanSucceed => <>[]PreviewIsCurrent


====
